---- MODULE Spec2Model ----
(***************************************************************************)
(* A model of the prompt-template core of the `responses` crate:           *)
(* src/src/prompt/template.rs (TemplateExecutor, PromptTemplate).          *)
(*                                                                         *)
(* JSON values (serde_json::Value) are tagged records, variable contexts   *)
(* (HashMap<String, Value>) are functions from names to values, rendered   *)
(* text is a TLA+ string, and a Result is a record with an `ok` flag.      *)
(***************************************************************************)
EXTENDS Integers, Sequences, FiniteSets, TLC

VARIABLES
    ast,                    \* PromptTemplate.ast
    default_variables,      \* PromptTemplate.default_variables
    required_variables,     \* PromptTemplate.required_variables
    current_locale,         \* PromptTemplate.current_locale
    accumulated_variables,  \* PromptTemplate.accumulated_variables
    includes,               \* PromptTemplate.frontmatter.includes
    locale_manager,         \* PromptTemplate.locale_manager
    files,                  \* the files under the executor's template_base_path
    locales,                \* the locales directory and the locale directories in it
    ret,                    \* what the most recent call on the template returned
    source,                 \* the text handed to TemplateParser::new, as tokens
    parse_result,           \* what TemplateParser::parse returned for it
    conversation,           \* the rendered text of a conversation, as lines
    messages,               \* the Messages a ConversationTemplate made of it
    builder,                \* a Messages builder in the caller's hands, if any
    pinned                  \* history: what earlier calls were given and returned

\* The fields of a PromptTemplate and the directories its renders read
template_vars == <<ast, default_variables, required_variables, current_locale,
                   accumulated_variables, includes, locale_manager, files, locales, ret>>
parser_vars == <<source, parse_result>>
conversation_vars == <<conversation, messages, builder>>
vars == <<template_vars, parser_vars, conversation_vars, pinned>>

(***************************************************************************)
(* Bounds of the model.                                                    *)
(***************************************************************************)
\* Most bindings a caller accumulates with .var() on one template value.
MaxVars == 2
\* Most bindings in the JSON object handed to render / render_with_additional_vars.
MaxSupplied == 1
\* Include nesting at which the model stops descending and reports "diverged"
\* (the code has no such limit; the model needs one to observe a runaway).
MaxIncludeDepth == 6

(***************************************************************************)
(* serde_json::Value                                                       *)
(***************************************************************************)
Null == [t |-> "null"]
Bool(b) == [t |-> "bool", b |-> b]
Str(s) == [t |-> "str", s |-> s]
Num(n) == [t |-> "num", n |-> n]
Arr(a) == [t |-> "arr", a |-> a]
Obj(o) == [t |-> "obj", o |-> o]

EmptyMap == << >>

\* map.get(k).is_some()
Has(m, k) == k \in DOMAIN m

\* a.clone() followed by insert of every (k, v) of b
MergeOver(a, b) ==
    [k \in (DOMAIN a) \cup (DOMAIN b) |-> IF k \in DOMAIN b THEN b[k] ELSE a[k]]

\* The object keys the model uses, in the order of serde_json's sorted Map.
KeyOrder == <<"id", "name">>

Digit(d) ==
    CASE d = 0 -> "0" [] d = 1 -> "1" [] d = 2 -> "2" [] d = 3 -> "3"
      [] d = 4 -> "4" [] d = 5 -> "5" [] d = 6 -> "6" [] d = 7 -> "7"
      [] d = 8 -> "8" [] d = 9 -> "9"

RECURSIVE NatToString(_)
NatToString(n) ==
    IF n < 10 THEN Digit(n) ELSE NatToString(n \div 10) \o Digit(n % 10)

\* Number::to_string for an integer
NumToString(n) == IF n < 0 THEN "-" \o NatToString(-n) ELSE NatToString(n)

RECURSIVE ToJson(_)
RECURSIVE ToJsonElems(_, _)
RECURSIVE ToJsonMembers(_, _, _)
\* Value::to_string: the compact JSON text of a value
ToJson(v) ==
    CASE v.t = "null" -> "null"
      [] v.t = "bool" -> (IF v.b THEN "true" ELSE "false")
      [] v.t = "num" -> NumToString(v.n)
      [] v.t = "str" -> "\"" \o v.s \o "\""
      [] v.t = "arr" -> "[" \o ToJsonElems(v.a, 1) \o "]"
      [] v.t = "obj" -> "{" \o ToJsonMembers(v.o, 1, TRUE) \o "}"

ToJsonElems(a, i) ==
    IF i > Len(a) THEN ""
    ELSE (IF i > 1 THEN "," ELSE "") \o ToJson(a[i]) \o ToJsonElems(a, i + 1)

ToJsonMembers(o, i, first) ==
    IF i > Len(KeyOrder) THEN ""
    ELSE IF KeyOrder[i] \in DOMAIN o
         THEN (IF first THEN "" ELSE ",") \o "\"" \o KeyOrder[i] \o "\":"
              \o ToJson(o[KeyOrder[i]]) \o ToJsonMembers(o, i + 1, FALSE)
         ELSE ToJsonMembers(o, i + 1, first)

\* parts.join(".")
RECURSIVE JoinDot(_)
JoinDot(parts) ==
    IF Len(parts) = 0 THEN ""
    ELSE IF Len(parts) = 1 THEN parts[1]
    ELSE parts[1] \o "." \o JoinDot(Tail(parts))

(***************************************************************************)
(* TemplateNode                                                            *)
(***************************************************************************)
None == [some |-> FALSE]
Some(v) == [some |-> TRUE, v |-> v]

Text(s) == [node |-> "Text", text |-> s]
Variable(n) == [node |-> "Variable", name |-> n]
NestedVariable(parts) == [node |-> "NestedVariable", parts |-> parts]
If(c, t, e) == [node |-> "If", condition |-> c, then_content |-> t, else_content |-> e]
Each(v, c) == [node |-> "Each", variable |-> v, content |-> c]
Switch(v, cs) == [node |-> "Switch", variable |-> v, cases |-> cs]
Case(v, c) == [node |-> "Case", value |-> v, content |-> c]
IfLocale(l, t, e) == [node |-> "IfLocale", locale |-> l, then_content |-> t, else_content |-> e]
Include(p, ps) == [node |-> "Include", path |-> p, params |-> ps]
\* The key is kept as its '.'-separated parts; params are as written in the source
I18n(k, ps) == [node |-> "I18n", key |-> k, params |-> ps]

\* A raw parameter expression `name=value` of an Include: the value as written,
\* quoted or bare, kept as its '.'-separated parts.
Quoted(parts) == [quoted |-> TRUE, parts |-> parts]
Bare(parts) == [quoted |-> FALSE, parts |-> parts]
\* param_value as stored by the parser
RawParam(p) == IF p.quoted THEN "\"" \o JoinDot(p.parts) \o "\"" ELSE JoinDot(p.parts)
\* param_value.trim_matches('"')
CleanParam(p) == JoinDot(p.parts)

(***************************************************************************)
(* Results                                                                 *)
(***************************************************************************)
Ok(out, ex) == [ok |-> TRUE, out |-> out, ex |-> ex]
Err(e, ex) == [ok |-> FALSE, err |-> e, ex |-> ex]

TemplateVariableNotFound(n) == [type |-> "TemplateVariableNotFound", name |-> n]
RequiredVariablesMissing(vs) == [type |-> "RequiredVariablesMissing", variables |-> vs]
TemplateParsing(m) == [type |-> "TemplateParsing", msg |-> m]
LocaleNotFound(l) == [type |-> "LocaleNotFound", locale |-> l]
I18nKeyNotFound(k, l) == [type |-> "I18nKeyNotFound", key |-> k, locale |-> l]
\* Not an error of the crate: the model's report that include nesting reached
\* MaxIncludeDepth, which stands for a render that does not terminate.
Diverged == [type |-> "Diverged"]

(***************************************************************************)
(* LocaleManager and LocaleData (src/src/prompt/i18n.rs).  `locales` is    *)
(* the directory at locales_path: None when it does not exist, else a map  *)
(* from the name of each locale directory in it to what its YAML files     *)
(* hold.                                                                   *)
(***************************************************************************)
\* A translation: literal text and {name} placeholders, in order
Lit(s) == [lit |-> TRUE, s |-> s]
Ph(n) == [lit |-> FALSE, s |-> n]
\* serde_yaml::Value, as far as locale files use it
YamlStr(pieces) == [y |-> "str", pieces |-> pieces]
YamlMap(m) == [y |-> "map", m |-> m]
\* A locale directory whose YAML files parse, and one holding a file that does not
LocaleDir(strings) == [parses |-> TRUE, strings |-> strings]
CorruptDir == [parses |-> FALSE, strings |-> EmptyMap]

\* LocaleManager::new on an existing locales_path
NewLocaleManager(default_locale) == [default_locale |-> default_locale, cache |-> EmptyMap]

\* locale.split('-').next(), on the locale identifiers of the model
GetParentLocale(locale) ==
    CASE locale = "es-MX" -> "es"
      [] locale = "en-US" -> "en"
      [] locale = "ar-EG" -> "ar"
      [] OTHER -> locale

\* self.locales_path.join(name).exists(); joining "" gives locales_path itself
CandidateExists(name) == locales.some /\ (name = "" \/ Has(locales.v, name))

\* LocaleManager::resolve_locale_path: the first candidate directory that exists
ResolveLocalePath(m, locale) ==
    LET candidates == <<locale, GetParentLocale(locale), m.default_locale>>
        First(found) ==
            IF found # {}
            THEN [ok |-> TRUE,
                  path |-> candidates[CHOOSE i \in found : \A j \in found : i <= j]]
            ELSE [ok |-> FALSE, err |-> LocaleNotFound(locale)]
    IN  First({i \in 1..3 : CandidateExists(candidates[i])})

\* LocaleManager::resolve_locale
ResolveLocale(m, requested_locale) ==
    LET fallback_chain == <<requested_locale, GetParentLocale(requested_locale),
                            m.default_locale>>
        First(found) ==
            IF found # {}
            THEN [ok |-> TRUE,
                  locale |-> fallback_chain[CHOOSE i \in found : \A j \in found : i <= j]]
            ELSE [ok |-> FALSE, err |-> LocaleNotFound(requested_locale)]
    IN  First({i \in 1..3 : /\ fallback_chain[i] # ""
                            /\ ResolveLocalePath(m, fallback_chain[i]).ok})

\* The text of a YAML string, placeholders written out as {name}
RECURSIVE RawText(_, _)
RawText(pieces, i) ==
    IF i > Len(pieces) THEN ""
    ELSE (IF pieces[i].lit THEN pieces[i].s ELSE "{" \o pieces[i].s \o "}")
         \o RawText(pieces, i + 1)

\* serde_yaml::Value::as_str
YamlAsStr(value) == IF value.y = "str" THEN Some(RawText(value.pieces, 1)) ELSE None

\* TextDirection
LeftToRight == "LeftToRight"
RightToLeft == "RightToLeft"

\* The `match language` of get_text_direction
LanguageDirection(language) ==
    IF language \in {"ar", "he", "fa", "ur"} THEN RightToLeft ELSE LeftToRight

\* LocaleManager::get_text_direction
GetTextDirection(locale, strings) ==
    IF /\ Has(strings, "text_direction")
       /\ YamlAsStr(strings["text_direction"]) = Some("rtl")
    THEN RightToLeft
    ELSE LanguageDirection(GetParentLocale(locale))

\* LocaleManager::load_locale_data
LoadLocaleData(m, locale) ==
    LET ReadDir(locale_dir) ==
            IF ~locale_dir.ok THEN [ok |-> FALSE, err |-> locale_dir.err]
            ELSE IF locale_dir.path = ""
                 THEN [ok |-> TRUE,
                       data |-> [locale |-> locale, strings |-> EmptyMap,
                                 text_direction |-> GetTextDirection(locale, EmptyMap)]]
            ELSE IF ~locales.v[locale_dir.path].parses
                 THEN [ok |-> FALSE,
                       err |-> TemplateParsing("Failed to parse locale file "
                                               \o locale_dir.path)]
            ELSE [ok |-> TRUE,
                  data |-> [locale |-> locale,
                            strings |-> locales.v[locale_dir.path].strings,
                            text_direction |->
                                GetTextDirection(locale,
                                                 locales.v[locale_dir.path].strings)]]
    IN  ReadDir(ResolveLocalePath(m, locale))

\* Mutant: a locale already in the cache is read from the directory again
LoadLocaleAlways(m, locale) ==
    LET Insert(loaded) ==
            IF ~loaded.ok THEN [ok |-> FALSE, err |-> loaded.err, manager |-> m]
            ELSE [ok |-> TRUE, data |-> loaded.data,
                  manager |-> [m EXCEPT !.cache =
                                   MergeOver(@, [k \in {locale} |-> loaded.data])]]
    IN  Insert(LoadLocaleData(m, locale))

\* LocaleManager::load_locale: the data returned and the manager as the call leaves it
LoadLocale(m, locale) ==
    LET Insert(loaded) ==
            IF ~loaded.ok THEN [ok |-> FALSE, err |-> loaded.err, manager |-> m]
            ELSE [ok |-> TRUE, data |-> loaded.data,
                  manager |-> [m EXCEPT !.cache =
                                   MergeOver(@, [k \in {locale} |-> loaded.data])]]
    IN  IF Has(m.cache, locale)
        THEN [ok |-> TRUE, data |-> m.cache[locale], manager |-> m]
        ELSE Insert(LoadLocaleData(m, locale))

\* LocaleManager::get_locale
GetLocale(m, locale) == LoadLocale(m, locale)

\* LocaleData::get_nested_value: the YAML value at a '.'-separated key
RECURSIVE GetNestedValue(_, _, _)
GetNestedValue(current, keys, i) ==
    IF i > Len(keys) THEN Some(current)
    ELSE IF current.y = "map" /\ Has(current.m, keys[i])
         THEN GetNestedValue(current.m[keys[i]], keys, i + 1)
         ELSE None

\* Mutant: a key with no translation reads as the empty translation
GetStringOrEmpty(data, keys) ==
    LET AsStr(found) ==
            IF found.some /\ found.v.y = "str" THEN Some(found.v.pieces) ELSE Some(<< >>)
    IN  AsStr(GetNestedValue(YamlMap(data.strings), keys, 1))

\* LocaleData::get_string
GetString(data, keys) ==
    LET AsStr(found) ==
            IF found.some /\ found.v.y = "str" THEN Some(found.v.pieces) ELSE None
    IN  AsStr(GetNestedValue(YamlMap(data.strings), keys, 1))

\* The text interpolate substitutes for a placeholder bound to var_value
InterpolationText(var_value) ==
    CASE var_value.t = "str" -> var_value.s
      [] var_value.t = "num" -> NumToString(var_value.n)
      [] var_value.t = "bool" -> (IF var_value.b THEN "true" ELSE "false")
      [] OTHER -> ToJson(var_value)

\* LocaleData::interpolate on a translation that exists, with values whose text
\* holds no placeholder: the replaces of the loop then touch disjoint places,
\* and one pass over the pieces gives their result
RECURSIVE Interpolate(_, _, _)
Interpolate(pieces, variables, i) ==
    IF i > Len(pieces) THEN ""
    ELSE LET p == pieces[i]
             text == IF p.lit THEN p.s
                     ELSE IF Has(variables, p.s) THEN InterpolationText(variables[p.s])
                     ELSE "{" \o p.s \o "}"
         IN  text \o Interpolate(pieces, variables, i + 1)

\* A JSON string whose text holds placeholders: its text, and the same text in
\* pieces
StrOf(pieces) == [t |-> "str", s |-> RawText(pieces, 1), pieces |-> pieces]

\* The text interpolate substitutes for var_value, in pieces
ValuePieces(var_value) ==
    IF var_value.t = "str" /\ "pieces" \in DOMAIN var_value THEN var_value.pieces
    ELSE <<Lit(InterpolationText(var_value))>>

\* result.replace(&placeholder, &value_str): every {var_name} of the text as it
\* stands gives way to the value; the text put in is not searched again for
\* the same placeholder
RECURSIVE Replace(_, _, _, _)
Replace(result, var_name, value, i) ==
    IF i > Len(result) THEN << >>
    ELSE (IF ~result[i].lit /\ result[i].s = var_name THEN value ELSE <<result[i]>>)
         \o Replace(result, var_name, value, i + 1)

\* The loop of LocaleData::interpolate: one replace for every entry of
\* `variables`, in the order the HashMap hands its entries out
RECURSIVE InterpolateInOrder(_, _, _, _)
InterpolateInOrder(result, variables, order, i) ==
    IF i > Len(order) THEN RawText(result, 1)
    ELSE InterpolateInOrder(Replace(result, order[i], ValuePieces(variables[order[i]]), 1),
                            variables, order, i + 1)

\* LocaleData::interpolate
InterpolateKey(data, key, variables, order) ==
    LET Found(template) ==
            IF ~template.some
            THEN [ok |-> FALSE, err |-> I18nKeyNotFound(JoinDot(key), data.locale)]
            ELSE [ok |-> TRUE, out |-> InterpolateInOrder(template.v, variables, order, 1)]
    IN  Found(GetString(data, key))

(***************************************************************************)
(* TemplateExecutor                                                        *)
(***************************************************************************)
\* TemplateExecutor::new, with the locale the template hands over.  depth_seen
\* records the longest include_stack the render has had.
NewExecutor(locale) ==
    [locale_manager |-> None, current_locale |-> locale, include_stack |-> << >>,
     depth_seen |-> 0]

\* TemplateExecutor::with_locale_manager
WithLocaleManager(ex, manager, locale) ==
    [ex EXCEPT !.locale_manager = Some(manager), !.current_locale = locale]

InStack(stack, path) == \E i \in 1..Len(stack) : stack[i] = path

\* Mutant: every number counts as true, zero included
IsConditionTrueAnyNumber(condition, vs) ==
    IF Has(vs, condition)
    THEN LET value == vs[condition] IN
         CASE value.t = "bool" -> value.b
           [] value.t = "null" -> FALSE
           [] value.t = "str" -> value.s # ""
           [] value.t = "num" -> TRUE
           [] value.t = "arr" -> Len(value.a) # 0
           [] value.t = "obj" -> DOMAIN value.o # {}
    ELSE FALSE

IsConditionTrue(condition, vs) ==
    IF Has(vs, condition)
    THEN LET value == vs[condition] IN
         CASE value.t = "bool" -> value.b
           [] value.t = "null" -> FALSE
           [] value.t = "str" -> value.s # ""
           [] value.t = "num" -> value.n # 0
           [] value.t = "arr" -> Len(value.a) # 0
           [] value.t = "obj" -> DOMAIN value.o # {}
    ELSE FALSE

RECURSIVE WalkNested(_, _, _)
WalkNested(current, parts, i) ==
    IF i > Len(parts) THEN Some(current)
    ELSE IF current.t = "obj" /\ Has(current.o, parts[i])
         THEN WalkNested(current.o[parts[i]], parts, i + 1)
         ELSE None

\* Mutant: a missing segment or a non-object on the way yields null, not None
ResolveNestedValueLenient(parts, vs) ==
    IF Len(parts) = 0 THEN None
    ELSE IF ~Has(vs, parts[1]) THEN None
    ELSE LET w == WalkNested(vs[parts[1]], parts, 2) IN
         IF w.some THEN w ELSE Some(Null)

ResolveNestedValue(parts, vs) ==
    IF Len(parts) = 0 THEN None
    ELSE IF ~Has(vs, parts[1]) THEN None
    ELSE WalkNested(vs[parts[1]], parts, 2)

ValueToString(value) ==
    CASE value.t = "str" -> value.s
      [] value.t = "num" -> NumToString(value.n)
      [] value.t = "bool" -> (IF value.b THEN "true" ELSE "false")
      [] value.t = "null" -> ""
      [] OTHER -> ToJson(value)

\* The bindings of one iteration of an Each
ItemVars(vs, item) ==
    LET withThis == MergeOver(vs, [k \in {"this"} |-> item]) IN
    IF item.t = "obj"
    THEN MergeOver(withThis,
                   [k \in {"this." \o key : key \in DOMAIN item.o} |->
                       item.o[CHOOSE key \in DOMAIN item.o : k = "this." \o key]])
    ELSE withThis

\* One parameter of an Include, resolved against the including context
ResolveIncludeParam(p, vs) ==
    LET clean_value == CleanParam(p)
        param_value == RawParam(p)
    IN  IF Has(vs, clean_value) THEN vs[clean_value]
        ELSE IF Has(vs, param_value) THEN vs[param_value]
        ELSE IF Len(p.parts) > 1
             THEN LET nested == ResolveNestedValue(p.parts, vs) IN
                  IF nested.some THEN nested.v ELSE Str(clean_value)
             ELSE Str(clean_value)

\* One parameter of an I18n, resolved against the rendering context.  The
\* parser stores the value of a quoted parameter without its quotes
\* (parse_i18n_expression), so param_value is the unquoted text either way.
ResolveI18nParam(p, vs) ==
    LET param_value == CleanParam(p)
        clean_value == CleanParam(p)
    IN  IF Has(vs, clean_value) THEN vs[clean_value]
        ELSE IF Has(vs, param_value) THEN vs[param_value]
        ELSE IF Len(p.parts) > 1
             THEN LET nested == ResolveNestedValue(p.parts, vs) IN
                  IF nested.some THEN nested.v ELSE Str(clean_value)
             ELSE Str(clean_value)

\* The interpolation_vars of render_i18n
InterpolationVars(params, vs) ==
    [k \in DOMAIN params |-> ResolveI18nParam(params[k], vs)]

\* TemplateExecutor::render_i18n
RenderI18n(key, params, vs, ex) ==
    IF ~ex.locale_manager.some
    THEN Err(I18nKeyNotFound(JoinDot(key), ex.current_locale), ex)
    ELSE LET Translate(template_str, after) ==
                 IF template_str.some
                 THEN Ok(Interpolate(template_str.v, InterpolationVars(params, vs), 1),
                         after)
                 ELSE Err(I18nKeyNotFound(JoinDot(key), ex.current_locale), after)
             WithLocaleData(got, after) ==
                 IF ~got.ok THEN Err(got.err, after)
                 ELSE Translate(GetString(got.data, key), after)
             Loaded(got) ==
                 WithLocaleData(got, [ex EXCEPT !.locale_manager = Some(got.manager)])
         IN  Loaded(GetLocale(ex.locale_manager.v, ex.current_locale))

\* Mutant: a variable of the parent wins over a parameter of the same name
IncludeVarsUnder(params, vs) ==
    MergeOver([k \in DOMAIN params |-> ResolveIncludeParam(params[k], vs)], vs)

IncludeVars(params, vs) ==
    MergeOver(vs, [k \in DOMAIN params |-> ResolveIncludeParam(params[k], vs)])

CircularMarker(path) == "<!-- Circular reference detected: " \o path \o " -->"
NotFoundMarker(path) == "<!-- Include not found: " \o path \o " -->"
ReadErrorMarker(path) == "<!-- Error reading include: " \o path \o " -->"

\* Mutant: only the including file itself is recognised as in flight
IsCircularParentOnly(ex, path) ==
    Len(ex.include_stack) > 0 /\ ex.include_stack[Len(ex.include_stack)] = path

\* self.include_stack.contains(path)
IsCircular(ex, path) == InStack(ex.include_stack, path)

\* self.include_stack.push(path)
PushInclude(ex, path) ==
    [ex EXCEPT !.include_stack = Append(@, path),
               !.depth_seen = IF Len(ex.include_stack) + 1 > @
                              THEN Len(ex.include_stack) + 1 ELSE @]

\* Mutant: the path stays on the stack when the include returns
PopIncludeSkipped(ex) == ex

\* self.include_stack.pop()
PopInclude(ex) ==
    [ex EXCEPT !.include_stack = SubSeq(@, 1, Len(@) - 1)]

\* Mutant: the language prefix of the active locale matches as well
LocaleMatchesLanguage(ex, locale) ==
    \/ ex.current_locale = locale
    \/ ex.current_locale = "es-MX" /\ locale = "es"

\* The test of an IfLocale: &self.current_locale == locale
LocaleMatches(ex, locale) == ex.current_locale = locale

\* Mutant: a missing include file fails the render
IncludeNotFoundFails(path, ex) ==
    Err(TemplateParsing("Include file not found: " \o path), ex)

\* What an Include of a path with no file under the base path returns
IncludeNotFound(path, ex) == Ok(NotFoundMarker(path), ex)

\* Mutant: the first case is taken whatever its value
SwitchFirstCase(cases, switch_str, i) == IF i <= Len(cases) THEN i ELSE 0

\* Mutant: the last matching case is taken
RECURSIVE LastMatch(_, _, _)
LastMatch(cases, switch_str, i) ==
    IF i > Len(cases) THEN 0
    ELSE LET later == LastMatch(cases, switch_str, i + 1) IN
         IF later # 0 THEN later
         ELSE IF switch_str = cases[i].value THEN i ELSE 0

\* The case a Switch renders: the index of the first case equal to switch_str, or 0
RECURSIVE FirstMatch(_, _, _)
FirstMatch(cases, switch_str, i) ==
    IF i > Len(cases) THEN 0
    ELSE IF switch_str = cases[i].value THEN i
    ELSE FirstMatch(cases, switch_str, i + 1)

RECURSIVE Render(_, _, _)
RECURSIVE RenderFrom(_, _, _, _, _)
RECURSIVE RenderNode(_, _, _)
RECURSIVE RenderEachFrom(_, _, _, _, _, _)
RECURSIVE RenderInclude(_, _, _, _)

\* TemplateExecutor::render
Render(nodes, vs, ex) == RenderFrom(nodes, 1, vs, ex, "")

RenderFrom(nodes, i, vs, ex, result) ==
    IF i > Len(nodes) THEN Ok(result, ex)
    ELSE LET r == RenderNode(nodes[i], vs, ex) IN
         IF r.ok THEN RenderFrom(nodes, i + 1, vs, r.ex, result \o r.out)
         ELSE r

\* TemplateExecutor::render_node (a Case outside a Switch yields None, which
\* render skips: the empty text here)
RenderNode(n, vs, ex) ==
    CASE n.node = "Text" -> Ok(n.text, ex)
      [] n.node = "Variable" ->
            IF Has(vs, n.name) THEN Ok(ValueToString(vs[n.name]), ex)
            ELSE Err(TemplateVariableNotFound(n.name), ex)
      [] n.node = "NestedVariable" ->
            LET value == ResolveNestedValue(n.parts, vs) IN
            IF value.some THEN Ok(ValueToString(value.v), ex)
            ELSE Err(TemplateVariableNotFound(JoinDot(n.parts)), ex)
      [] n.node = "If" ->
            IF IsConditionTrue(n.condition, vs) THEN Render(n.then_content, vs, ex)
            ELSE IF n.else_content.some THEN Render(n.else_content.v, vs, ex)
            ELSE Ok("", ex)
      [] n.node = "Each" ->
            IF Has(vs, n.variable) /\ vs[n.variable].t = "arr"
            THEN RenderEachFrom(vs[n.variable].a, 1, n.content, vs, ex, "")
            ELSE Ok("", ex)
      [] n.node = "Switch" ->
            IF Has(vs, n.variable)
            THEN LET m == FirstMatch(n.cases, ValueToString(vs[n.variable]), 1) IN
                 IF m # 0 THEN Render(n.cases[m].content, vs, ex) ELSE Ok("", ex)
            ELSE Ok("", ex)
      [] n.node = "IfLocale" ->
            IF LocaleMatches(ex, n.locale) THEN Render(n.then_content, vs, ex)
            ELSE IF n.else_content.some THEN Render(n.else_content.v, vs, ex)
            ELSE Ok("", ex)
      [] n.node = "Include" -> RenderInclude(n.path, n.params, vs, ex)
      [] n.node = "I18n" -> RenderI18n(n.key, n.params, vs, ex)
      [] n.node = "Case" -> Ok("", ex)

\* Mutant: each element's text is put in front of the text so far
RECURSIVE RenderEachFromPrepend(_, _, _, _, _, _)
RenderEachFromPrepend(array, i, content, vs, ex, result) ==
    IF i > Len(array) THEN Ok(result, ex)
    ELSE LET r == Render(content, ItemVars(vs, array[i]), ex) IN
         IF r.ok
         THEN RenderEachFromPrepend(array, i + 1, content, vs, r.ex, r.out \o result)
         ELSE r

\* The loop of an Each over the elements of its array
RenderEachFrom(array, i, content, vs, ex, result) ==
    IF i > Len(array) THEN Ok(result, ex)
    ELSE LET r == Render(content, ItemVars(vs, array[i]), ex) IN
         IF r.ok THEN RenderEachFrom(array, i + 1, content, vs, r.ex, result \o r.out)
         ELSE r

\* TemplateExecutor::render_include.  A file of `files` is
\* [readable, parsed]: parsed is what TemplateParser::parse makes of its text.
RenderInclude(path, params, vs, ex) ==
    IF IsCircular(ex, path) THEN Ok(CircularMarker(path), ex)
    ELSE IF ~Has(files, path) THEN IncludeNotFound(path, ex)
    ELSE IF ~files[path].readable THEN Ok(ReadErrorMarker(path), ex)
    ELSE IF Len(ex.include_stack) >= MaxIncludeDepth THEN Err(Diverged, ex)
    ELSE LET pushed == PushInclude(ex, path)
             parsed == files[path].parsed
         IN  IF ~parsed.ok THEN Err(TemplateParsing(parsed.msg), pushed)
             ELSE LET r == Render(parsed.ast, IncludeVars(params, vs), pushed) IN
                  IF r.ok THEN Ok(r.out, PopInclude(r.ex)) ELSE r

(***************************************************************************)
(* TemplateParser.  The text is a sequence of tokens: `{{`, `}}`, a word   *)
(* (a keyword with its argument, as written between braces) and plain      *)
(* text.  Words and texts hold no brace and no white space at their ends,  *)
(* so a search of the text for `{{`, `}}` or `{{#case ` is a search of the *)
(* tokens, and trim() changes nothing.  A parser position is the index of  *)
(* the next token.                                                         *)
(***************************************************************************)
Tok(k, kw, arg) == [k |-> k, kw |-> kw, arg |-> arg]
OpenTok == Tok("open", "{{", "")
CloseTok == Tok("close", "}}", "")
Word(kw, arg) == Tok("word", kw, arg)
TextTok(s) == Tok("text", s, "")

\* The characters of a token
TokText(t) == IF t.arg = "" THEN t.kw ELSE t.kw \o " " \o t.arg

\* self.content[a..b], by tokens
RECURSIVE TextOf(_, _, _)
TextOf(toks, a, b) == IF a > b THEN "" ELSE TokText(toks[a]) \o TextOf(toks, a + 1, b)

\* remaining.find("{{") / remaining.find("}}"): the first such token from pos on, or 0
FindFrom(toks, pos, kind) ==
    LET found == {i \in pos..Len(toks) : toks[i].k = kind} IN
    IF found = {} THEN 0 ELSE CHOOSE i \in found : \A j \in found : i <= j

\* remaining.starts_with("{{<kw>}}")
StartsWithTag(toks, pos, kw) ==
    /\ pos + 2 <= Len(toks)
    /\ toks[pos] = OpenTok
    /\ toks[pos + 1] = Word(kw, "")
    /\ toks[pos + 2] = CloseTok

\* remaining.find("{{#case "): the index of the `{{` of the first one from pos on, or 0
FindCase(toks, pos) ==
    LET found == {i \in pos..(Len(toks) - 1) :
                     /\ toks[i] = OpenTok
                     /\ toks[i + 1].k = "word"
                     /\ toks[i + 1].kw = "#case"
                     /\ toks[i + 1].arg # ""} IN
    IF found = {} THEN 0 ELSE CHOOSE i \in found : \A j \in found : i <= j

\* s.split('.') of the text of one token
SplitDot(s) ==
    CASE s = "user.name" -> <<"user", "name">>
      [] OTHER -> <<s>>

\* expr.split('.') of the text of the tokens a..b
RECURSIVE ExprParts(_, _, _)
ExprParts(toks, a, b) ==
    IF a > b THEN <<"">>
    ELSE LET head == SplitDot(TokText(toks[a]))
             rest == ExprParts(toks, a + 1, b)
         IN  SubSeq(head, 1, Len(head) - 1)
             \o <<head[Len(head)] \o rest[1]>>
             \o SubSeq(rest, 2, Len(rest))

\* What the parser functions return: the node(s), the position after them, and
\* the text still to parse
Parsed(val, pos, toks) == [ok |-> TRUE, val |-> val, pos |-> pos, toks |-> toks]
ParseErr(e) == [ok |-> FALSE, err |-> e]

RECURSIVE ParseNextNode(_, _)
RECURSIVE ParseTemplateExpression(_, _)
RECURSIVE ParseBlockUntil(_, _, _, _)
RECURSIVE ParseIfBlock(_, _, _)
RECURSIVE ParseEachBlock(_, _, _)
RECURSIVE ParseSwitchBlock(_, _, _, _)
RECURSIVE ParseIfLocaleBlock(_, _, _)

\* What parse_template_expression returns when no `}}` follows
Unclosed(toks, pos) == ParseErr(TemplateParsing("Unclosed template expression"))

\* TemplateParser::parse_next_node
ParseNextNode(toks, pos) ==
    LET start == FindFrom(toks, pos, "open") IN
    IF start # 0
    THEN IF start > pos
         THEN Parsed(Some(Text(TextOf(toks, pos, start - 1))), start, toks)
         ELSE ParseTemplateExpression(toks, pos + 1)
    ELSE IF pos <= Len(toks)
         THEN Parsed(Some(Text(TextOf(toks, pos, Len(toks)))), Len(toks) + 1, toks)
         ELSE Parsed(None, pos, toks)

\* TemplateParser::parse_template_expression
ParseTemplateExpression(toks, pos) ==
    LET end == FindFrom(toks, pos, "close") IN
    IF end = 0 THEN Unclosed(toks, pos)
    ELSE LET after == end + 1
             first == IF pos < end THEN toks[pos] ELSE TextTok("")
             keyword == IF first.k = "word" /\ first.arg # "" THEN first.kw ELSE ""
             argument == first.arg \o TextOf(toks, pos + 1, end - 1)
             parts == ExprParts(toks, pos, end - 1)
         IN  CASE keyword = "#if" -> ParseIfBlock(argument, toks, after)
               [] keyword = "#each" -> ParseEachBlock(argument, toks, after)
               [] keyword = "#switch" -> ParseSwitchBlock(argument, toks, after, << >>)
               [] keyword = "#if_locale" -> ParseIfLocaleBlock(argument, toks, after)
               [] keyword = ">" -> Parsed(Some(Include(argument, EmptyMap)), after, toks)
               [] OTHER ->
                    IF Len(parts) > 1
                    THEN Parsed(Some(NestedVariable(parts)), after, toks)
                    ELSE Parsed(Some(Variable(parts[1])), after, toks)

\* TemplateParser::parse_block_until; nodes are those gathered so far
ParseBlockUntil(terminators, toks, pos, nodes) ==
    IF pos > Len(toks) THEN Parsed(nodes, pos, toks)
    ELSE IF \E t \in terminators : StartsWithTag(toks, pos, t) THEN Parsed(nodes, pos, toks)
    ELSE LET r == ParseNextNode(toks, pos) IN
         IF ~r.ok THEN r
         ELSE IF ~r.val.some THEN Parsed(nodes, r.pos, r.toks)
         ELSE ParseBlockUntil(terminators, r.toks, r.pos, Append(nodes, r.val.v))

\* TemplateParser::parse_if_block
ParseIfBlock(condition, toks, pos) ==
    LET then_content == ParseBlockUntil({"else", "/if"}, toks, pos, << >>) IN
    IF ~then_content.ok THEN then_content
    ELSE LET has_else == StartsWithTag(then_content.toks, then_content.pos, "else")
             else_content ==
                IF has_else
                THEN ParseBlockUntil({"/if"}, then_content.toks, then_content.pos + 3, << >>)
                ELSE then_content
         IN  IF ~else_content.ok THEN else_content
             ELSE Parsed(Some(If(condition, then_content.val,
                                 IF has_else THEN Some(else_content.val) ELSE None)),
                         IF StartsWithTag(else_content.toks, else_content.pos, "/if")
                         THEN else_content.pos + 3 ELSE else_content.pos,
                         else_content.toks)

\* TemplateParser::parse_each_block
ParseEachBlock(variable, toks, pos) ==
    LET body == ParseBlockUntil({"/each"}, toks, pos, << >>) IN
    IF ~body.ok THEN body
    ELSE Parsed(Some(Each(variable, body.val)),
                IF StartsWithTag(body.toks, body.pos, "/each") THEN body.pos + 3
                ELSE body.pos,
                body.toks)

\* TemplateParser::parse_switch_block; cases are those gathered so far.  When a
\* `{{#case ` has no `}}` after it the loop ends with the position just behind
\* it, inside the word: what is left of the word is text from then on.
ParseSwitchBlock(variable, toks, pos, cases) ==
    IF pos > Len(toks) THEN Parsed(Some(Switch(variable, cases)), pos, toks)
    ELSE IF StartsWithTag(toks, pos, "/switch")
    THEN Parsed(Some(Switch(variable, cases)), pos + 3, toks)
    ELSE LET case_start == FindCase(toks, pos) IN
         IF case_start = 0 THEN ParseSwitchBlock(variable, toks, pos + 1, cases)
         ELSE LET case_end == FindFrom(toks, case_start + 2, "close") IN
              IF case_end = 0
              THEN Parsed(Some(Switch(variable, cases)), case_start + 1,
                          [toks EXCEPT ![case_start + 1] = TextTok(@.arg)])
              ELSE LET case_value == toks[case_start + 1].arg
                                     \o TextOf(toks, case_start + 2, case_end - 1)
                       case_content == ParseBlockUntil({"/case"}, toks, case_end + 1, << >>)
                   IN  IF ~case_content.ok THEN case_content
                       ELSE ParseSwitchBlock(
                                variable, case_content.toks,
                                IF StartsWithTag(case_content.toks, case_content.pos, "/case")
                                THEN case_content.pos + 3 ELSE case_content.pos,
                                Append(cases, [value |-> case_value,
                                               content |-> case_content.val]))

\* TemplateParser::parse_if_locale_block
ParseIfLocaleBlock(locale, toks, pos) ==
    LET then_content == ParseBlockUntil({"else", "/if_locale"}, toks, pos, << >>) IN
    IF ~then_content.ok THEN then_content
    ELSE LET has_else == StartsWithTag(then_content.toks, then_content.pos, "else")
             else_content ==
                IF has_else
                THEN ParseBlockUntil({"/if_locale"}, then_content.toks,
                                     then_content.pos + 3, << >>)
                ELSE then_content
         IN  IF ~else_content.ok THEN else_content
             ELSE Parsed(Some(IfLocale(locale, then_content.val,
                                       IF has_else THEN Some(else_content.val) ELSE None)),
                         IF StartsWithTag(else_content.toks, else_content.pos, "/if_locale")
                         THEN else_content.pos + 3 ELSE else_content.pos,
                         else_content.toks)

\* The loop of TemplateParser::parse
RECURSIVE ParseFrom(_, _, _)
ParseFrom(toks, pos, nodes) ==
    IF pos > Len(toks) THEN [ok |-> TRUE, ast |-> nodes]
    ELSE LET r == ParseNextNode(toks, pos) IN
         IF ~r.ok THEN [ok |-> FALSE, err |-> r.err]
         ELSE IF ~r.val.some THEN [ok |-> TRUE, ast |-> nodes]
         ELSE ParseFrom(r.toks, r.pos, Append(nodes, r.val.v))

\* TemplateParser::new(content).parse()
Parse(toks) == ParseFrom(toks, 1, << >>)

(***************************************************************************)
(* PromptTemplate                                                          *)
(***************************************************************************)
\* The merge of render_with_base_path: defaults, then every supplied binding over them
AllVars(defaults, supplied) ==
    IF supplied.t = "obj" THEN MergeOver(defaults, supplied.o) ELSE defaults

\* Mutant: the error names only the first missing variable
ValidateVariablesFirstOnly(required, supplied) ==
    IF Len(required) = 0 THEN [ok |-> TRUE]
    ELSE IF supplied.t # "obj"
         THEN [ok |-> FALSE,
               err |-> TemplateParsing("Variables must be provided as a JSON object")]
    ELSE LET missing == SelectSeq(required, LAMBDA v : ~Has(supplied.o, v)) IN
         IF Len(missing) # 0
         THEN [ok |-> FALSE, err |-> RequiredVariablesMissing(<<Head(missing)>>)]
         ELSE [ok |-> TRUE]

\* Mutant: the check is made after the defaults are merged in
ValidateVariablesMerged(required, supplied) ==
    IF Len(required) = 0 THEN [ok |-> TRUE]
    ELSE IF supplied.t # "obj"
         THEN [ok |-> FALSE,
               err |-> TemplateParsing("Variables must be provided as a JSON object")]
    ELSE LET merged == AllVars(default_variables, supplied)
             missing == SelectSeq(required, LAMBDA v : ~Has(merged, v)) IN
         IF Len(missing) # 0
         THEN [ok |-> FALSE, err |-> RequiredVariablesMissing(missing)]
         ELSE [ok |-> TRUE]

\* PromptTemplate::validate_variables: Ok(()) is [ok |-> TRUE]
ValidateVariables(required, supplied) ==
    IF Len(required) = 0 THEN [ok |-> TRUE]
    ELSE IF supplied.t # "obj"
         THEN [ok |-> FALSE,
               err |-> TemplateParsing("Variables must be provided as a JSON object")]
    ELSE LET missing == SelectSeq(required, LAMBDA v : ~Has(supplied.o, v)) IN
         IF Len(missing) # 0
         THEN [ok |-> FALSE, err |-> RequiredVariablesMissing(missing)]
         ELSE [ok |-> TRUE]

\* The directory a caller of render_with_base_path names: the one `files` describes
BasePath == "templates"

\* Mutant: the frontmatter includes are not looked for
ValidateIncludesSkipped(base_path) == [ok |-> TRUE]

\* PromptTemplate::validate_includes: Ok(()) is [ok |-> TRUE]
ValidateIncludes(base_path) ==
    LET absent == {i \in 1..Len(includes) : ~Has(files, includes[i])} IN
    IF absent = {} THEN [ok |-> TRUE]
    ELSE LET include_path == includes[CHOOSE i \in absent : \A j \in absent : i <= j] IN
         [ok |-> FALSE,
          err |-> TemplateParsing("Include file not found: " \o include_path
                                  \o " (resolved to " \o base_path \o "/"
                                  \o include_path \o ")")]

\* Mutant: the executor of the previous render is used again, include stack and all
TemplateExecutorKept(locale) ==
    LET executor == [NewExecutor(locale) EXCEPT
                        !.include_stack = IF "executor" \in DOMAIN ret
                                          THEN ret.executor.include_stack ELSE << >>]
    IN  IF locale_manager.some THEN WithLocaleManager(executor, locale_manager.v, locale)
        ELSE executor

\* The executor render_with_base_path creates for one render
TemplateExecutor(locale) ==
    LET executor == NewExecutor(locale) IN
    IF locale_manager.some THEN WithLocaleManager(executor, locale_manager.v, locale)
    ELSE executor

\* PromptTemplate::render_with_base_path; base_path is None or Some(BasePath).
\* `rendered` tells whether the executor was run, `executor` is the executor as
\* the render left it.
RenderWithBasePath(supplied, base_path) ==
    LET valid == ValidateVariables(required_variables, supplied)
        found == IF base_path.some THEN ValidateIncludes(base_path.v) ELSE [ok |-> TRUE]
    IN
    IF ~valid.ok
    THEN [result |-> [ok |-> FALSE, err |-> valid.err], rendered |-> FALSE,
          executor |-> NewExecutor(current_locale)]
    ELSE IF ~found.ok
    THEN [result |-> [ok |-> FALSE, err |-> found.err], rendered |-> FALSE,
          executor |-> NewExecutor(current_locale)]
    ELSE LET r == Render(ast, AllVars(default_variables, supplied),
                         TemplateExecutor(current_locale))
         IN  [result |-> IF r.ok THEN [ok |-> TRUE, out |-> r.out]
                         ELSE [ok |-> FALSE, err |-> r.err],
              rendered |-> TRUE, executor |-> r.ex]

\* PromptTemplate::render
RenderTemplate(supplied) == RenderWithBasePath(supplied, None)

\* Mutant: an accumulated .var value wins over an additional variable
CombinedVarsKeepAccumulated(accumulated, additional) ==
    IF additional.t = "obj" THEN MergeOver(additional.o, accumulated) ELSE accumulated

\* The combined variables of render_with_additional_vars
CombinedVars(accumulated, additional) ==
    IF additional.t = "obj" THEN MergeOver(accumulated, additional.o) ELSE accumulated

(***************************************************************************)
(* The templates and variable values the model draws its inputs from.      *)
(***************************************************************************)
Alice == Obj([k \in {"name"} |-> Str("Alice")])
Seven == Obj([k \in {"id"} |-> Num(7)])
Deep == Obj([k \in {"name"} |-> Seven])

Scalars == {Bool(TRUE), Bool(FALSE), Null, Str(""), Str("a"), Num(0), Num(1)}
Arrays == {Arr(<< >>), Arr(<<Str("a"), Str("b")>>), Arr(<<Alice, Num(1), Null>>)}
Objects == {Obj(EmptyMap), Alice, Seven, Deep}

File(nodes) == [readable |-> TRUE, parsed |-> [ok |-> TRUE, ast |-> nodes]]
Unreadable == [readable |-> FALSE, parsed |-> [ok |-> FALSE, msg |-> ""]]
NoFiles == EmptyMap

Greet ==
    [ast |-> <<Text("Hello "), Variable("name"), Text(", I am your "),
               Variable("role"), Text(".")>>,
     variables |-> [k \in {"role"} |-> Str("assistant")],
     required_variables |-> <<"name">>,
     files |-> NoFiles,
     keys |-> {"name", "role"},
     values |-> {Str("Alice"), Str(""), Num(1), Null}]

Staff ==
    [ast |-> <<Variable("name"), Text(" "), Variable("role"), Text(" "),
               Variable("domain")>>,
     variables |-> [k \in {"role"} |-> Str("assistant")],
     required_variables |-> <<"name", "role", "domain">>,
     files |-> NoFiles,
     keys |-> {"name", "role", "domain"},
     values |-> {Str("x"), Num(1)}]

Nested ==
    [ast |-> <<Text("Hello "), NestedVariable(<<"user", "name">>), Text("!"),
               NestedVariable(<<"user", "name", "id">>)>>,
     variables |-> EmptyMap,
     required_variables |-> << >>,
     files |-> NoFiles,
     keys |-> {"user"},
     values |-> Objects \cup {Str("a"), Null}]

Debug ==
    [ast |-> <<Text("a"), If("debug", <<Text("X")>>, None), Text("b"),
               If("debug", <<Text("T")>>, Some(<<Text("E")>>))>>,
     variables |-> EmptyMap,
     required_variables |-> << >>,
     files |-> NoFiles,
     keys |-> {"debug"},
     values |-> Scalars \cup Arrays \cup Objects]

Items ==
    [ast |-> <<Text("["),
               Each("items", <<Text("<"), Variable("this"), Text(">")>>),
               Text("]")>>,
     variables |-> EmptyMap,
     required_variables |-> << >>,
     files |-> NoFiles,
     keys |-> {"items"},
     values |-> Scalars \cup Arrays \cup Objects]

Kind ==
    [ast |-> <<Switch("kind", <<[value |-> "a", content |-> <<Text("A1")>>],
                                [value |-> "1", content |-> <<Text("ONE")>>],
                                [value |-> "a", content |-> <<Text("A2")>>],
                                [value |-> "true", content |-> <<Text("YES")>>],
                                [value |-> "[]", content |-> <<Text("NIL")>>]>>),
               Text(".")>>,
     variables |-> EmptyMap,
     required_variables |-> << >>,
     files |-> NoFiles,
     keys |-> {"kind"},
     values |-> Scalars \cup Arrays \cup Objects]

Localized ==
    [ast |-> <<IfLocale("es", <<Text("ES")>>, Some(<<Text("OTHER")>>)), Text("|"),
               IfLocale("en", <<Text("EN")>>, None)>>,
     variables |-> EmptyMap,
     required_variables |-> << >>,
     files |-> NoFiles,
     keys |-> {"es", "en"},
     values |-> {Bool(TRUE), Str("es")}]

Cyclic ==
    [ast |-> <<Text("["), Include("a.md", EmptyMap), Text("]"),
               Include("b.md", EmptyMap)>>,
     variables |-> EmptyMap,
     required_variables |-> << >>,
     files |-> [p \in {"a.md", "b.md", "c.md"} |->
                  CASE p = "a.md" -> File(<<Text("A("), Include("a.md", EmptyMap), Text(")")>>)
                    [] p = "b.md" -> File(<<Text("B("), Include("c.md", EmptyMap), Text(")")>>)
                    [] p = "c.md" -> File(<<Text("C("), Include("b.md", EmptyMap),
                                            Include("a.md", EmptyMap), Text(")")>>)],
     keys |-> {"a.md"},
     values |-> {Str("a"), Null}]

\* a.md and b.md include each other; ./a.md is the file a.md under another spelling
Mutual ==
    [ast |-> <<Include("a.md", EmptyMap), Text("|"), Include("a.md", EmptyMap)>>,
     variables |-> EmptyMap,
     required_variables |-> << >>,
     files |-> [p \in {"a.md", "b.md", "./a.md"} |->
                  IF p = "b.md"
                  THEN File(<<Text("b"), Include("a.md", EmptyMap),
                              Include("./a.md", EmptyMap)>>)
                  ELSE File(<<Text("a"), Include("b.md", EmptyMap),
                              Include("b.md", EmptyMap)>>)],
     keys |-> {"x"},
     values |-> {Null, Str("a")}]

Partial ==
    [ast |-> <<Text("pre "), Include("missing.md", EmptyMap), Text(" mid "),
               Include("leaf.md", [k \in {"title"} |-> Bare(<<"name">>)]),
               Text(" "), Include("dir.md", EmptyMap), Text(" post")>>,
     variables |-> EmptyMap,
     required_variables |-> << >>,
     files |-> [p \in {"leaf.md", "dir.md"} |->
                  CASE p = "leaf.md" -> File(<<Text("L:"), Variable("title"),
                                               Include("gone.md", EmptyMap)>>)
                    [] p = "dir.md" -> Unreadable],
     keys |-> {"name", "title"},
     values |-> {Str("Alice"), Num(1)}]

\* The locale directories of the i18n templates: en has every key, es lacks
\* system.title and holds a mapping where en has the text of `farewell`
EnStrings ==
    [k \in {"greeting", "farewell", "system"} |->
        CASE k = "greeting" -> YamlStr(<<Lit("Hello "), Ph("name"), Lit("!")>>)
          [] k = "farewell" -> YamlStr(<<Lit("Bye")>>)
          [] k = "system" -> YamlMap([t \in {"title"} |-> YamlStr(<<Lit("Desk")>>)])]
EsStrings ==
    [k \in {"greeting", "farewell", "system"} |->
        CASE k = "greeting" -> YamlStr(<<Lit("Hola "), Ph("name"), Lit("!")>>)
          [] k = "farewell" -> YamlMap([t \in {"short"} |-> YamlStr(<<Lit("Chao")>>)])
          [] k = "system" -> YamlMap(EmptyMap)]
EnEs == Some([d \in {"en", "es"} |-> IF d = "en" THEN LocaleDir(EnStrings)
                                      ELSE LocaleDir(EsStrings)])

Welcome ==
    [ast |-> <<Text("["), I18n(<<"greeting">>, [k \in {"name"} |-> Bare(<<"name">>)]),
               Text("] "), I18n(<<"system", "title">>, EmptyMap), Text(" "),
               I18n(<<"farewell">>, EmptyMap)>>,
     variables |-> EmptyMap,
     required_variables |-> << >>,
     files |-> NoFiles,
     locales |-> EnEs,
     keys |-> {"name"},
     values |-> {Str("Ana"), Num(2)}]

\* An i18n template where the locales directory holds no directory for the
\* default locale
Orphan ==
    [ast |-> <<Text("o "), I18n(<<"greeting">>, EmptyMap)>>,
     variables |-> EmptyMap,
     required_variables |-> << >>,
     files |-> NoFiles,
     locales |-> Some([d \in {"es"} |-> LocaleDir(EsStrings)]),
     keys |-> {"name"},
     values |-> {Str("Ana")}]

\* Quoted parameters whose text is also the name of a variable
Titled ==
    [ast |-> <<Include("leaf.md", [k \in {"title"} |-> Quoted(<<"name">>)]), Text("|"),
               I18n(<<"greeting">>, [k \in {"name"} |-> Quoted(<<"name">>)])>>,
     variables |-> EmptyMap,
     required_variables |-> << >>,
     files |-> [p \in {"leaf.md"} |-> File(<<Text("L:"), Variable("title")>>)],
     locales |-> EnEs,
     keys |-> {"name", "title"},
     values |-> {Str("Alice"), Num(1)}]

\* Frontmatter includes that all exist, next to an inline include that does not
Declared ==
    [ast |-> <<Text("d "), Include("leaf.md", EmptyMap), Text(" "),
               Include("missing.md", EmptyMap)>>,
     variables |-> EmptyMap,
     required_variables |-> <<"name">>,
     includes |-> <<"leaf.md", "dir.md">>,
     files |-> [p \in {"leaf.md", "dir.md"} |->
                  IF p = "leaf.md" THEN File(<<Text("L:"), Variable("name")>>)
                  ELSE Unreadable],
     keys |-> {"name"},
     values |-> {Str("Alice"), Num(1)}]

\* Frontmatter includes two of which do not exist, in a template that also
\* requires a variable
Undeclared ==
    [ast |-> <<Text("u "), Include("leaf.md", EmptyMap), Variable("name")>>,
     variables |-> EmptyMap,
     required_variables |-> <<"name">>,
     includes |-> <<"leaf.md", "absent.md", "gone.md">>,
     files |-> [p \in {"leaf.md"} |-> File(<<Text("L")>>)],
     keys |-> {"name"},
     values |-> {Str("Alice"), Null}]

\* An included file that fails to render when `who` is not bound
Broken ==
    [ast |-> <<Include("part.md", EmptyMap), Text("!")>>,
     variables |-> EmptyMap,
     required_variables |-> << >>,
     files |-> [p \in {"part.md"} |-> File(<<Text("P:"), Variable("who")>>)],
     keys |-> {"who"},
     values |-> {Str("Bo"), Null}]

\* One file included several times: one after another at top level, and as
\* siblings inside pair.md, which also includes itself
Twice ==
    [ast |-> <<Include("leaf.md", EmptyMap), Text("|"), Include("leaf.md", EmptyMap),
               Text("|"), Include("pair.md", EmptyMap), Text("|"),
               Include("leaf.md", EmptyMap)>>,
     variables |-> EmptyMap,
     required_variables |-> << >>,
     files |-> [p \in {"leaf.md", "pair.md"} |->
                  IF p = "leaf.md" THEN File(<<Text("L")>>)
                  ELSE File(<<Text("P("), Include("leaf.md", EmptyMap),
                              Include("leaf.md", EmptyMap), Include("pair.md", EmptyMap),
                              Text(")")>>)],
     keys |-> {"x"},
     values |-> {Str("a")}]

\* A team: an object with a lead and a list of tags
Team(lead, tags) ==
    Obj([k \in {"lead", "tags"} |-> IF k = "lead" THEN Str(lead) ELSE Arr(tags)])

\* An Each inside an Each: for every tag of every team, `!` when the tag has a
\* truthy lead of its own and `-` when not; `leak` when `this` is still bound
\* behind the outer Each
Teams ==
    [ast |-> <<Each("teams",
                    <<Text("("),
                      Each("this.tags",
                           <<If("this.lead", <<Text("!")>>, Some(<<Text("-")>>))>>),
                      Text(")")>>),
               If("this", <<Text("leak")>>, None)>>,
     variables |-> EmptyMap,
     required_variables |-> << >>,
     files |-> NoFiles,
     keys |-> {"teams"},
     values |-> {Arr(<<Team("Ann", <<Str("a")>>)>>),
                 Arr(<<Team("Ann", <<Obj([k \in {"id"} |-> Num(1)]),
                                     Obj([k \in {"lead"} |-> Str("Bo")])>>),
                       Team("", <<Str("a"), Obj([k \in {"lead"} |-> Str("")])>>)>>),
                 Arr(<<Str("solo"), Team("Cy", << >>)>>),
                 Str("none")}]

\* Every control node with a node that cannot render, or renders a marker, in
\* one branch: the else of an If, the body of an Each, the first case of a
\* Switch and the then of an IfLocale
Guarded ==
    [ast |-> <<If("on", <<Text("Y")>>, Some(<<Variable("absent")>>)),
               Each("list", <<I18n(<<"no", "key">>, EmptyMap), Variable("absent")>>),
               Switch("on", <<[value |-> "zzz",
                               content |-> <<Include("nowhere.md", EmptyMap),
                                             Variable("absent")>>],
                              [value |-> "true", content |-> <<Text("T")>>]>>),
               IfLocale("es", <<Variable("absent")>>, Some(<<Text("E")>>))>>,
     variables |-> EmptyMap,
     required_variables |-> << >>,
     files |-> NoFiles,
     keys |-> {"on", "list"},
     values |-> {Bool(TRUE), Bool(FALSE), Str("zzz"), Str("x"),
                 Arr(<< >>), Arr(<<Num(1)>>)}]

\* An include whose parameters take each other's names in the parent (`name`
\* is the parent's title, `title` the parent's name) and add `extra`; the
\* parent reads name, title and extra again behind the include
Scoped ==
    [ast |-> <<Include("card.md",
                       [k \in {"name", "title", "extra"} |->
                           CASE k = "name" -> Bare(<<"title">>)
                             [] k = "title" -> Bare(<<"name">>)
                             [] k = "extra" -> Quoted(<<"lit">>)]),
               Text("|"), If("extra", <<Text("leak")>>, None),
               Variable("name"), Text("|"), Variable("title")>>,
     variables |-> EmptyMap,
     required_variables |-> << >>,
     files |-> [p \in {"card.md"} |->
                  File(<<Variable("name"), Text("/"), Variable("title"), Text("/"),
                         Variable("extra")>>)],
     keys |-> {"name", "title"},
     values |-> {Str("N"), Str("T"), Num(1)}]

Catalog == {Greet, Staff, Nested, Debug, Items, Kind, Localized, Cyclic, Mutual, Partial,
            Welcome, Orphan, Titled, Declared, Undeclared, Broken, Twice, Teams, Guarded,
            Scoped}

\* A field of a catalog entry, or what the entry has when it does not name it
FieldOr(e, f, d) == IF f \in DOMAIN e THEN e[f] ELSE d

\* The catalog entry the template in hand was built from
Entry == CHOOSE e \in Catalog : e.ast = ast

\* The locales a caller switches the template in hand to
Locales ==
    IF ast \in {Localized.ast, Welcome.ast} THEN {"en", "es", "es-MX"} ELSE {"en", "es"}

\* The JSON values a caller hands to render: objects of at most n bindings, or
\* a value that is not an object
ObjectsOver(keys, values, n) ==
    {Obj(m) : m \in UNION {[ks -> values] : ks \in {s \in SUBSET keys : Cardinality(s) <= n}}}

Supplied == ObjectsOver(Entry.keys, Entry.values, MaxSupplied) \cup {Null}

(***************************************************************************)
(* Operations                                                              *)
(***************************************************************************)
\* The parser and conversation variables while a template is at work
OtherIdle ==
    /\ source = << >> /\ parse_result = None
    /\ conversation = << >> /\ messages = None /\ builder = None
    /\ pinned = None

\* PromptTemplate::from_content of a catalog template
Init ==
    /\ \E e \in Catalog :
        /\ ast = e.ast
        /\ default_variables = e.variables
        /\ required_variables = e.required_variables
        /\ includes = FieldOr(e, "includes", << >>)
        /\ files = e.files
        /\ locales = FieldOr(e, "locales", None)
    /\ locale_manager = None
    /\ current_locale = "en"
    /\ accumulated_variables = EmptyMap
    /\ ret = [call |-> "from_content"]
    /\ OtherIdle

\* PromptTemplate::var
Var(key, value) ==
    /\ Cardinality(DOMAIN accumulated_variables \cup {key}) <= MaxVars
    /\ accumulated_variables' = MergeOver(accumulated_variables, [k \in {key} |-> value])
    /\ ret' = [call |-> "var", key |-> key, value |-> value]
    /\ UNCHANGED <<ast, default_variables, required_variables, current_locale, includes,
                   locale_manager, files, locales>>

\* PromptTemplate::with_locale: the locale is stored as given, and a new locale
\* manager with default locale "en" is set up when the locales directory exists
WithLocale(locale) ==
    /\ current_locale' = locale
    /\ locale_manager' = IF locales.some THEN Some(NewLocaleManager("en"))
                         ELSE locale_manager
    /\ ret' = [call |-> "with_locale"]
    /\ UNCHANGED <<ast, default_variables, required_variables, accumulated_variables,
                   includes, files, locales>>

\* PromptTemplate::render
RenderCall(supplied) ==
    /\ ret' = [call |-> "render", vars |-> supplied] @@ RenderTemplate(supplied)
    /\ UNCHANGED <<ast, default_variables, required_variables, current_locale,
                   accumulated_variables, includes, locale_manager, files, locales>>

\* PromptTemplate::render_with_base_path with a base path (as TemplateSet::render
\* calls it)
RenderWithBasePathCall(supplied) ==
    /\ ret' = [call |-> "render_with_base_path", vars |-> supplied]
              @@ RenderWithBasePath(supplied, Some(BasePath))
    /\ UNCHANGED <<ast, default_variables, required_variables, current_locale,
                   accumulated_variables, includes, locale_manager, files, locales>>

\* PromptTemplate::render_with_vars
RenderWithVars ==
    /\ ret' = [call |-> "render_with_vars", vars |-> Obj(accumulated_variables)]
              @@ RenderTemplate(Obj(accumulated_variables))
    /\ UNCHANGED <<ast, default_variables, required_variables, current_locale,
                   accumulated_variables, includes, locale_manager, files, locales>>

\* PromptTemplate::render_with_additional_vars
RenderWithAdditionalVars(additional) ==
    /\ LET combined == Obj(CombinedVars(accumulated_variables, additional)) IN
       ret' = [call |-> "render_with_additional_vars", vars |-> combined,
               additional |-> additional] @@ RenderTemplate(combined)
    /\ UNCHANGED <<ast, default_variables, required_variables, current_locale,
                   accumulated_variables, includes, locale_manager, files, locales>>

Next ==
    /\ \/ \E k \in Entry.keys, v \in Entry.values : Var(k, v)
       \/ \E l \in Locales : WithLocale(l)
       \/ \E s \in Supplied : RenderCall(s)
       \/ \E s \in Supplied : RenderWithBasePathCall(s)
       \/ RenderWithVars
       \/ \E s \in Supplied : RenderWithAdditionalVars(s)
    /\ UNCHANGED <<parser_vars, conversation_vars, pinned>>

Spec == Init /\ [][Next]_vars

(***************************************************************************)
(* Renders of one template value, repeated.  The template is one that      *)
(* from_content, var and with_locale calls have built; `pinned` names the  *)
(* variables of the render under watch and keeps the template as it was    *)
(* built, the first result of that render, and whether a render with other *)
(* variables has been made since.                                          *)
(***************************************************************************)
RepeatCatalog == {Greet, Welcome, Cyclic, Broken}

InitRepeat ==
    /\ \E e \in RepeatCatalog :
        /\ ast = e.ast
        /\ default_variables = e.variables
        /\ required_variables = e.required_variables
        /\ includes = FieldOr(e, "includes", << >>)
        /\ files = e.files
        /\ locales = FieldOr(e, "locales", None)
        /\ \E acc \in ObjectsOver(e.keys, e.values, MaxSupplied) :
               accumulated_variables = acc.o
    /\ \/ current_locale = "en" /\ locale_manager = None
       \/ /\ current_locale \in {"en", "es", "es-MX"}
          /\ locale_manager = IF locales.some THEN Some(NewLocaleManager("en")) ELSE None
    /\ \E watched \in Supplied, based \in BOOLEAN :
           pinned = [vars |-> watched, based |-> based, first |-> None,
                     interleaved |-> FALSE,
                     template |-> <<ast, default_variables, required_variables,
                                    current_locale, locale_manager>>]
    /\ ret = [call |-> "with_locale"]
    /\ source = << >> /\ parse_result = None
    /\ conversation = << >> /\ messages = None /\ builder = None

\* The history after a render has returned
Observe ==
    pinned' =
        IF ret'.vars = pinned.vars /\ (ret'.call = "render_with_base_path") = pinned.based
        THEN IF pinned.first.some THEN pinned
             ELSE [pinned EXCEPT !.first = Some(ret'.result)]
        ELSE IF pinned.first.some THEN [pinned EXCEPT !.interleaved = TRUE]
             ELSE pinned

NextRepeat ==
    /\ \/ \E s \in Supplied : RenderCall(s)
       \/ \E s \in Supplied : RenderWithBasePathCall(s)
       \/ RenderWithVars
       \/ \E s \in Supplied : RenderWithAdditionalVars(s)
    /\ Observe
    /\ UNCHANGED <<parser_vars, conversation_vars>>

SpecRepeat == InitRepeat /\ [][NextRepeat]_vars

(***************************************************************************)
(* A LocaleManager on its own: LocaleManager::new(locales_path, default)   *)
(* and the calls made on it, while the locale directories come and go.     *)
(***************************************************************************)
\* The locale identifiers callers ask for, and the directory names on disk
LocaleIds == {"en", "es", "es-MX"}
\* What a locale directory can hold
DirContents == {LocaleDir(EnStrings), LocaleDir(EsStrings), CorruptDir}
\* The default locales a manager is created with
DefaultLocales == {"en", "es"}

\* No template at work
TemplateIdle ==
    /\ ast = << >>
    /\ default_variables = EmptyMap
    /\ required_variables = << >>
    /\ current_locale = "en"
    /\ accumulated_variables = EmptyMap
    /\ includes = << >>
    /\ files = NoFiles

\* LocaleManager::new on a locales directory that exists
InitLocale ==
    /\ \E present \in SUBSET LocaleIds : \E dirs \in [present -> DirContents] :
           locales = Some(dirs)
    /\ \E d \in DefaultLocales : locale_manager = Some(NewLocaleManager(d))
    /\ ret = [call |-> "new"]
    /\ TemplateIdle
    /\ OtherIdle

\* LocaleManager::resolve_locale
ResolveLocaleCall(requested_locale) ==
    /\ ret' = [call |-> "resolve_locale", locale |-> requested_locale,
               result |-> ResolveLocale(locale_manager.v, requested_locale)]
    /\ UNCHANGED <<locale_manager, locales>>

\* LocaleManager::load_locale
LoadLocaleCall(locale) ==
    LET r == LoadLocale(locale_manager.v, locale) IN
    /\ locale_manager' = Some(r.manager)
    /\ ret' = [call |-> "load_locale", locale |-> locale,
               result |-> IF r.ok THEN [ok |-> TRUE, data |-> r.data]
                          ELSE [ok |-> FALSE, err |-> r.err]]
    /\ UNCHANGED locales

\* LocaleManager::get_locale
GetLocaleCall(locale) ==
    LET r == GetLocale(locale_manager.v, locale) IN
    /\ locale_manager' = Some(r.manager)
    /\ ret' = [call |-> "get_locale", locale |-> locale,
               result |-> IF r.ok THEN [ok |-> TRUE, data |-> r.data]
                          ELSE [ok |-> FALSE, err |-> r.err]]
    /\ UNCHANGED locales

\* Somebody writes the YAML files of a locale directory, new or existing
WriteLocaleDir(name, dir) ==
    /\ locales' = Some(MergeOver(locales.v, [d \in {name} |-> dir]))
    /\ ret' = [call |-> "write"]
    /\ UNCHANGED locale_manager

\* Somebody removes a locale directory
RemoveLocaleDir(name) ==
    /\ name \in DOMAIN locales.v
    /\ locales' = Some([d \in DOMAIN locales.v \ {name} |-> locales.v[d]])
    /\ ret' = [call |-> "remove"]
    /\ UNCHANGED locale_manager

NextLocale ==
    /\ \/ \E l \in LocaleIds : ResolveLocaleCall(l)
       \/ \E l \in LocaleIds : LoadLocaleCall(l)
       \/ \E l \in LocaleIds : GetLocaleCall(l)
       \/ \E d \in LocaleIds, c \in DirContents : WriteLocaleDir(d, c)
       \/ \E d \in LocaleIds : RemoveLocaleDir(d)
    /\ UNCHANGED <<ast, default_variables, required_variables, current_locale,
                   accumulated_variables, includes, files>>
    /\ UNCHANGED <<parser_vars, conversation_vars, pinned>>

SpecLocale == InitLocale /\ [][NextLocale]_vars

(***************************************************************************)
(* Locale directories that declare a text direction, or none.              *)
(***************************************************************************)
\* Locale identifiers, right-to-left languages among them
DirectionIds == {"ar", "ar-EG", "he", "en"}

\* A locale directory whose files hold a greeting and `text_direction: value`
Declares(value) ==
    LocaleDir([k \in {"greeting", "text_direction"} |->
                  IF k = "greeting" THEN YamlStr(<<Lit("Hi")>>) ELSE value])

\* What a locale directory can say about the direction: nothing, rtl, ltr,
\* another word, or something that is no string
DirectionDirs ==
    {LocaleDir([k \in {"greeting"} |-> YamlStr(<<Lit("Hi")>>)]),
     Declares(YamlStr(<<Lit("rtl")>>)),
     Declares(YamlStr(<<Lit("ltr")>>)),
     Declares(YamlStr(<<Lit("RTL")>>)),
     Declares(YamlMap(EmptyMap))}

\* LocaleManager::new("en") on a locales directory that exists
InitDirection ==
    /\ \E present \in SUBSET DirectionIds : \E dirs \in [present -> DirectionDirs] :
           locales = Some(dirs)
    /\ locale_manager = Some(NewLocaleManager("en"))
    /\ ret = [call |-> "new"]
    /\ TemplateIdle
    /\ OtherIdle

NextDirection ==
    /\ \E l \in DirectionIds : LoadLocaleCall(l)
    /\ UNCHANGED <<ast, default_variables, required_variables, current_locale,
                   accumulated_variables, includes, files>>
    /\ UNCHANGED <<parser_vars, conversation_vars, pinned>>

SpecDirection == InitDirection /\ [][NextDirection]_vars

(***************************************************************************)
(* LocaleData::interpolate on its own: a translation with placeholders and *)
(* a parameter map, some of whose values hold placeholders themselves.     *)
(***************************************************************************)
\* Most pieces (plain texts and placeholders) of a translation
MaxPieces == 3

\* What a translation is put together from
Pieces == {Lit("a"), Ph("x"), Ph("y")}

\* The names of the parameters
ParamNames == {"x", "y"}

\* The values of the parameters
ParamValues ==
    {Str("1"), Num(2), StrOf(<<Ph("x")>>), StrOf(<<Ph("y")>>), StrOf(<<Lit("b"), Ph("y")>>)}

\* The orders a HashMap of these keys can hand its entries out in
Orders(keys) ==
    {o \in UNION {[1..n -> keys] : n \in {Cardinality(keys)}} :
        \A i, j \in DOMAIN o : i # j => o[i] # o[j]}

\* A LocaleData with one translation, a key to look up and a parameter map
InitInterpolate ==
    /\ \E n \in 1..MaxPieces : \E template \in [1..n -> Pieces] :
       \E key \in {<<"greeting">>, <<"farewell">>} :
       \E names \in SUBSET ParamNames : \E variables \in [names -> ParamValues] :
           pinned = Some([data |-> [locale |-> "en",
                                    strings |-> [k \in {"greeting"} |-> YamlStr(template)],
                                    text_direction |-> LeftToRight],
                          key |-> key,
                          variables |-> variables,
                          first |-> None])
    /\ ret = [call |-> "none"]
    /\ locale_manager = None /\ locales = None
    /\ source = << >> /\ parse_result = None
    /\ conversation = << >> /\ messages = None /\ builder = None
    /\ TemplateIdle

\* data.interpolate(key, &variables), the map handing its entries out in `order`
InterpolateCall(order) ==
    LET Returned(result) ==
            /\ ret' = [call |-> "interpolate", order |-> order, result |-> result]
            /\ pinned' = IF pinned.v.first.some THEN pinned
                          ELSE Some([pinned.v EXCEPT !.first = Some(result)])
    IN  Returned(InterpolateKey(pinned.v.data, pinned.v.key, pinned.v.variables, order))

NextInterpolate ==
    /\ \E order \in Orders(DOMAIN pinned.v.variables) : InterpolateCall(order)
    /\ UNCHANGED <<ast, default_variables, required_variables, current_locale,
                   accumulated_variables, includes, files, locale_manager, locales>>
    /\ UNCHANGED <<parser_vars, conversation_vars>>

SpecInterpolate == InitInterpolate /\ [][NextInterpolate]_vars

(***************************************************************************)
(* TemplateParser on its own: a text is put together from tags, plain      *)
(* text, a `{{` that is never closed and a stray `}}`, and parsed.         *)
(***************************************************************************)
\* Most items (tags, texts, lone braces) a text is put together from
MaxItems == 3

\* What is written between the braces of a tag
Words ==
    {Word("#if", "a"), Word("else", ""), Word("/if", ""),
     Word("#each", "xs"), Word("/each", ""),
     Word("#switch", "k"), Word("#case", "v"), Word("/case", ""), Word("/switch", ""),
     Word("#if_locale", "es"), Word("/if_locale", ""),
     Word("name", ""), Word("user.name", ""), Word("#unless", "x")}

\* `{{word}}`
Tag(w) == <<OpenTok, w, CloseTok>>
\* `{{word` with nothing closing it
Lone(w) == <<OpenTok, w>>

SourceItems ==
    {Tag(w) : w \in Words}
    \cup {<<TextTok("x")>>, <<CloseTok>>, Lone(Word("oops", "")), Lone(Word("#case", "v"))}

\* The texts of exactly n items
RECURSIVE Sources(_)
Sources(n) ==
    IF n = 0 THEN {<< >>}
    ELSE {s \o item : s \in Sources(n - 1), item \in SourceItems}

\* No LocaleManager at work
LocaleIdle == locale_manager = None /\ locales = None /\ ret = [call |-> "none"]

\* TemplateParser::new(content)
InitParser ==
    /\ \E n \in 0..MaxItems : source \in Sources(n)
    /\ parse_result = None
    /\ conversation = << >>
    /\ messages = None /\ builder = None
    /\ pinned = None
    /\ TemplateIdle
    /\ LocaleIdle

\* TemplateParser::parse
ParseCall ==
    /\ parse_result = None
    /\ parse_result' = Some(Parse(source))
    /\ UNCHANGED source

NextParser ==
    /\ ParseCall
    /\ UNCHANGED <<template_vars, conversation_vars, pinned>>

SpecParser == InitParser /\ [][NextParser]_vars

(***************************************************************************)
(* Templates written block by block.  An author starts from a line of text *)
(* and puts it, one step at a time, inside a new block or in front of a    *)
(* further node; `source` is the text written so far and `pinned` keeps    *)
(* the nodes the author means by it.                                       *)
(***************************************************************************)
\* How many blocks deep the author nests
MaxDepth == 3

\* The condition an if at nesting depth d tests
ConditionAt(d) == IF d % 2 = 0 THEN "a" ELSE "b"

\* The text of a block: opener, body, and closer
Block(opener, body, closer) == Tag(opener) \o body \o Tag(Word(closer, ""))

\* TemplateParser::new(content), for a text with no block in it yet
InitBlocks ==
    /\ \E base \in {<< >>, <<Text("x")>>, <<Variable("name")>>} :
          /\ pinned = Some([ast |-> base, depth |-> 0, switches |-> 0, separated |-> FALSE])
          /\ source = IF base = << >> THEN << >>
                      ELSE IF base[1].node = "Text" THEN <<TextTok("x")>>
                      ELSE Tag(Word("name", ""))
    /\ parse_result = None
    /\ conversation = << >>
    /\ messages = None /\ builder = None
    /\ TemplateIdle
    /\ LocaleIdle

\* The author makes the text the then branch of a new if, with or without an
\* else branch, or its else branch
NestIf(branch) ==
    /\ parse_result = None
    /\ pinned.v.depth < MaxDepth
    /\ LET cond == ConditionAt(pinned.v.depth) IN
       /\ source' =
             CASE branch = "then" -> Block(Word("#if", cond), source, "/if")
               [] branch = "then_else" ->
                    Block(Word("#if", cond),
                          source \o Tag(Word("else", "")) \o <<TextTok("z")>>, "/if")
               [] branch = "else" ->
                    Block(Word("#if", cond),
                          <<TextTok("y")>> \o Tag(Word("else", "")) \o source, "/if")
       /\ pinned' = Some([pinned.v EXCEPT
             !.depth = @ + 1,
             !.ast = CASE branch = "then" -> <<If(cond, @, None)>>
                       [] branch = "then_else" -> <<If(cond, @, Some(<<Text("z")>>))>>
                       [] branch = "else" -> <<If(cond, <<Text("y")>>, Some(@))>>])
    /\ UNCHANGED parse_result

\* The author makes the text the body of a new each
NestEach ==
    /\ parse_result = None
    /\ pinned.v.depth < MaxDepth
    /\ source' = Block(Word("#each", "xs"), source, "/each")
    /\ pinned' = Some([pinned.v EXCEPT !.depth = @ + 1, !.ast = <<Each("xs", @)>>])
    /\ UNCHANGED parse_result

\* The author makes the text the then branch of a new if_locale
NestIfLocale(with_else) ==
    /\ parse_result = None
    /\ pinned.v.depth < MaxDepth
    /\ source' = Block(Word("#if_locale", "es"),
                       IF with_else
                       THEN source \o Tag(Word("else", "")) \o <<TextTok("z")>>
                       ELSE source,
                       "/if_locale")
    /\ pinned' = Some([pinned.v EXCEPT
          !.depth = @ + 1,
          !.ast = <<IfLocale("es", @, IF with_else THEN Some(<<Text("z")>>) ELSE None)>>])
    /\ UNCHANGED parse_result

\* The author makes the text the only case of a new switch, and may leave a
\* blank between `{{/case}}` and `{{/switch}}`
NestCase(separated) ==
    /\ parse_result = None
    /\ pinned.v.depth < MaxDepth
    /\ source' = Block(Word("#switch", "k"),
                       Block(Word("#case", "v"), source, "/case")
                       \o (IF separated THEN <<TextTok(" ")>> ELSE << >>),
                       "/switch")
    /\ pinned' = Some([pinned.v EXCEPT
          !.depth = @ + 1,
          !.switches = @ + 1,
          !.separated = @ \/ separated,
          !.ast = <<Switch("k", <<[value |-> "v", content |-> pinned.v.ast]>>)>>])
    /\ UNCHANGED parse_result

\* The author writes a further node behind the text: a variable, or a switch of
\* its own
Follow(switch) ==
    /\ parse_result = None
    /\ Len(pinned.v.ast) = 1
    /\ source' = source \o
                    (IF switch
                     THEN Block(Word("#switch", "j"),
                                Block(Word("#case", "w"), <<TextTok("y")>>, "/case"),
                                "/switch")
                     ELSE Tag(Word("name", "")))
    /\ pinned' = Some([pinned.v EXCEPT
          !.switches = IF switch THEN @ + 1 ELSE @,
          !.ast = @ \o (IF switch
                        THEN <<Switch("j", <<[value |-> "w",
                                              content |-> <<Text("y")>>]>>)>>
                        ELSE <<Variable("name")>>)])
    /\ UNCHANGED parse_result

\* TemplateParser::parse of the text written so far
ParseBlocks ==
    /\ parse_result = None
    /\ parse_result' = Some(Parse(source))
    /\ UNCHANGED <<source, pinned>>

NextBlocks ==
    /\ \/ \E branch \in {"then", "then_else", "else"} : NestIf(branch)
       \/ NestEach
       \/ \E with_else \in BOOLEAN : NestIfLocale(with_else)
       \/ \E separated \in BOOLEAN : NestCase(separated)
       \/ \E switch \in BOOLEAN : Follow(switch)
       \/ ParseBlocks
    /\ UNCHANGED <<template_vars, conversation_vars>>

SpecBlocks == InitBlocks /\ [][NextBlocks]_vars

(***************************************************************************)
(* ConversationTemplate: the rendered text is split into messages.  The    *)
(* text is a sequence of lines (content.lines()); a line is its leading    *)
(* white space, its body and its trailing white space, the body being a    *)
(* `## <word>` header, plain text, or nothing.  There are two              *)
(* ConversationTemplate types in the crate: prompt::template's (used by    *)
(* TemplateSet) and prompt::conversation's (exported from prompt).         *)
(***************************************************************************)
\* Most lines of a rendered conversation
MaxLines == 4

Line(lead, kind, word, trail) == [lead |-> lead, kind |-> kind, word |-> word, trail |-> trail]
Header(word) == Line("", "head", word, "")
Plain(text) == Line("", "plain", text, "")
Blank(space) == Line(space, "blank", "", "")

\* line.trim()
Trimmed(l) == IF l.kind = "head" THEN "## " \o l.word ELSE l.word
\* line
LineText(l) == l.lead \o Trimmed(l) \o l.trail

\* to_lowercase of the word of a header
ToLowercase(word) ==
    CASE word = "System" -> "system"
      [] word = "USER" -> "user"
      [] word = "Assistant" -> "assistant"
      [] word = "developer" -> "developer"
      [] word = "Notes" -> "notes"
      [] OTHER -> word

\* The role a header word stands for: Some(Role) or None
RoleOf(word) ==
    LET lower == ToLowercase(word) IN
    CASE lower = "system" -> Some("System")
      [] lower = "user" -> Some("User")
      [] lower = "assistant" -> Some("Assistant")
      [] lower = "developer" -> Some("Developer")
      [] OTHER -> None

\* lines[a..b].join("\n")
RECURSIVE JoinLines(_, _, _)
JoinLines(lines, a, b) ==
    IF a > b THEN ""
    ELSE IF a = b THEN LineText(lines[a])
    ELSE LineText(lines[a]) \o "\n" \o JoinLines(lines, a + 1, b)

\* lines.join("\n").trim(): blank lines and white space at both ends go
TrimJoin(lines) ==
    LET full == {i \in 1..Len(lines) : Trimmed(lines[i]) # ""} IN
    IF full = {} THEN ""
    ELSE LET first == CHOOSE i \in full : \A j \in full : i <= j
             last == CHOOSE i \in full : \A j \in full : i >= j
         IN  IF first = last THEN Trimmed(lines[first])
             ELSE Trimmed(lines[first]) \o lines[first].trail \o "\n"
                  \o (IF first + 1 <= last - 1
                      THEN JoinLines(lines, first + 1, last - 1) \o "\n" ELSE "")
                  \o lines[last].lead \o Trimmed(lines[last])

\* Messages::add_message
AddMessage(msgs, role, text) == Append(msgs, [role |-> role, content |-> text])
\* Messages::system
System(msgs, text) == AddMessage(msgs, "System", text)

\* "Save previous message if any"
SaveMessage(msgs, current_role, current_content) ==
    IF current_role.some /\ TrimJoin(current_content) # ""
    THEN AddMessage(msgs, current_role.v, TrimJoin(current_content))
    ELSE msgs

\* prompt::template::ConversationTemplate::parse_conversation_content, from the
\* i-th line on
RECURSIVE ParseConversationContent(_, _, _, _, _)
ParseConversationContent(lines, i, current_role, current_content, msgs) ==
    IF i > Len(lines) THEN SaveMessage(msgs, current_role, current_content)
    ELSE LET line == lines[i] IN
         IF line.kind = "head"
         THEN ParseConversationContent(lines, i + 1, RoleOf(line.word), << >>,
                                       SaveMessage(msgs, current_role, current_content))
         ELSE IF current_role.some
         THEN ParseConversationContent(lines, i + 1, current_role,
                                       Append(current_content, line), msgs)
         ELSE IF Trimmed(line) # ""
         THEN SaveMessage(System(msgs, JoinLines(lines, 1, Len(lines))),
                          current_role, current_content)
         ELSE ParseConversationContent(lines, i + 1, current_role, current_content, msgs)

\* The loop of prompt::conversation::ConversationTemplate::parse_conversation
RECURSIVE ParseConversationLines(_, _, _, _, _)
ParseConversationLines(lines, i, current_role, current_content, msgs) ==
    IF i > Len(lines) THEN SaveMessage(msgs, current_role, current_content)
    ELSE LET line == lines[i]
             role == IF line.kind = "head" THEN RoleOf(line.word) ELSE None
         IN  IF role.some
             THEN ParseConversationLines(lines, i + 1, role, << >>,
                                         SaveMessage(msgs, current_role, current_content))
             ELSE IF current_role.some
             THEN ParseConversationLines(lines, i + 1, current_role,
                                         Append(current_content, line), msgs)
             ELSE ParseConversationLines(lines, i + 1, current_role, current_content, msgs)

\* prompt::conversation::ConversationTemplate::parse_conversation
ParseConversation(lines) ==
    LET msgs == ParseConversationLines(lines, 1, None, << >>, << >>) IN
    IF Len(msgs) = 0 /\ TrimJoin(lines) # "" THEN System(msgs, TrimJoin(lines))
    ELSE msgs

\* The lines a rendered conversation is made of
ConversationLines ==
    {Header("System"), Header("USER"), Line(" ", "head", "Assistant", "  "), Header("Notes"),
     Plain("hi"), Line(" ", "plain", "yo", " "), Blank(""), Blank(" ")}

\* The texts of exactly n lines
RECURSIVE Conversations(_)
Conversations(n) ==
    IF n = 0 THEN {<< >>}
    ELSE {Append(c, l) : c \in Conversations(n - 1), l \in ConversationLines}

\* The template of a ConversationTemplate has rendered its text
InitConversation ==
    /\ \E n \in 0..MaxLines : conversation \in Conversations(n)
    /\ messages = None /\ builder = None
    /\ source = << >>
    /\ parse_result = None
    /\ pinned = None
    /\ TemplateIdle
    /\ LocaleIdle

\* prompt::template::ConversationTemplate::render, from the rendered text on
RenderConversation ==
    /\ messages = None
    /\ messages' = Some([by |-> "template",
                         list |-> ParseConversationContent(conversation, 1, None,
                                                           << >>, << >>)])
    /\ UNCHANGED <<conversation, builder>>

\* prompt::conversation::ConversationTemplate::render, from the rendered text on
RenderConversationExported ==
    /\ messages = None
    /\ messages' = Some([by |-> "conversation", list |-> ParseConversation(conversation)])
    /\ UNCHANGED <<conversation, builder>>

NextConversation ==
    /\ \/ RenderConversation
       \/ RenderConversationExported
    /\ UNCHANGED <<template_vars, parser_vars, pinned>>

SpecConversation == InitConversation /\ [][NextConversation]_vars

(***************************************************************************)
(* The Messages builder (src/src/messages.rs).  `builder` is the Messages  *)
(* value the caller holds; the builder keeps its locale unset, as          *)
(* Messages::new leaves it.                                                *)
(***************************************************************************)
\* The longest list of inputs a builder is given
MaxInputs == 2

\* Input::Message and Input::Template
InputMessage(role, content) == [input |-> "Message", role |-> role, content |-> content]
TemplateInput(role, template) ==
    [input |-> "Template", role |-> role, template |-> template]

\* Messages::new
NewMessages ==
    [messages |-> << >>, accumulated_variables |-> EmptyMap, current_locale |-> None,
     locale_paths |-> << >>]

\* The markdown template of test_variable_order_flexibility
Hello ==
    [ast |-> <<Text("Hello "), Variable("name"), Text(", you are a "),
               Variable("role"), Text(".")>>,
     variables |-> EmptyMap,
     required_variables |-> << >>]

\* The template files a builder can load
MdFiles ==
    [p \in {"hello.md", "greet.md"} |-> IF p = "hello.md" THEN Hello ELSE Greet]

\* The paths callers hand to system_from_md / assistant_from_md
MdPaths == {"hello.md", "greet.md", "none.md"}

\* PromptTemplate::load(path) for a file that is there: from_content of its text
LoadTemplate(path) ==
    [ast |-> MdFiles[path].ast,
     default_variables |-> MdFiles[path].variables,
     required_variables |-> MdFiles[path].required_variables,
     current_locale |-> "en",
     accumulated_variables |-> EmptyMap,
     locale_manager |-> None]

\* PromptTemplate::render_with_vars of a template value held by a builder
TemplateRenderWithVars(template) ==
    LET Result(r) ==
            IF r.ok THEN [ok |-> TRUE, out |-> r.out] ELSE [ok |-> FALSE, err |-> r.err]
        Rendered(valid, supplied) ==
            IF ~valid.ok THEN [ok |-> FALSE, err |-> valid.err]
            ELSE Result(Render(template.ast,
                               AllVars(template.default_variables, supplied),
                               NewExecutor(template.current_locale)))
    IN  Rendered(ValidateVariables(template.required_variables,
                                   Obj(template.accumulated_variables)),
                 Obj(template.accumulated_variables))

\* Messages::apply_accumulated_variables_static: template.var(key, value) for
\* every accumulated variable
ApplyAccumulatedVariablesStatic(variables, template) ==
    [template EXCEPT !.accumulated_variables = MergeOver(@, variables)]

\* The message render_inputs makes of one stored input
RenderInput(self, input) ==
    IF input.input = "Message" THEN input
    ELSE LET Made(r) ==
                 IF r.ok THEN InputMessage(input.role, r.out)
                 ELSE InputMessage(input.role, "<!-- Template rendering failed -->")
         IN  Made(TemplateRenderWithVars(
                     ApplyAccumulatedVariablesStatic(self.accumulated_variables,
                                                     input.template)))

\* Messages::render_inputs (into_inputs returns the same list)
RenderInputs(self) ==
    [i \in 1..Len(self.messages) |-> RenderInput(self, self.messages[i])]

\* Mutant: the template is rendered when it is added, with the variables the
\* builder has by then
TemplateInternalRendered(self, role, template) ==
    [self EXCEPT !.messages =
        Append(@, RenderInput(self, TemplateInput(role, template)))]

\* Messages::system_from_template_internal / assistant_from_template_internal
TemplateInternal(self, role, template) ==
    [self EXCEPT !.messages = Append(@, TemplateInput(role, template))]

\* Messages::var
MessagesVar(self, key, value) ==
    [self EXCEPT !.accumulated_variables = MergeOver(@, [k \in {key} |-> value])]

\* Messages::user
MessagesUser(self, content) ==
    [self EXCEPT !.messages = Append(@, InputMessage("User", content))]

\* The variable names and values callers set on a builder
BuilderKeys == {"name", "role"}
BuilderValues == {Str("Alice"), Str("Bob")}

\* Messages::new()
InitMessages ==
    /\ builder = Some(NewMessages)
    /\ pinned = Some([late |-> FALSE, early |-> FALSE, added |-> << >>])
    /\ ret = [call |-> "new"]
    /\ TemplateIdle
    /\ locale_manager = None /\ locales = None
    /\ source = << >> /\ parse_result = None
    /\ conversation = << >> /\ messages = None

\* .var(key, value); the history notes whether a template was stored already
VarCall(key, value) ==
    /\ builder.some
    /\ builder' = Some(MessagesVar(builder.v, key, value))
    /\ pinned' = Some(IF \E i \in 1..Len(builder.v.messages) :
                            builder.v.messages[i].input = "Template"
                      THEN [pinned.v EXCEPT !.late = TRUE]
                      ELSE [pinned.v EXCEPT !.early = TRUE])
    /\ ret' = [call |-> "var"]

\* .user(content)
UserCall(content) ==
    /\ builder.some
    /\ Len(builder.v.messages) < MaxInputs
    /\ builder' = Some(MessagesUser(builder.v, content))
    /\ pinned' = Some([pinned.v EXCEPT !.added =
                          Append(@, [role |-> "User", path |-> "", text |-> content])])
    /\ ret' = [call |-> "user"]

\* .system_from_md(path) and .assistant_from_md(path): a file that cannot be
\* read makes the call return the error, and the builder it consumed is gone.
\* The history lists the calls that added an input.
FromMdCall(role, path) ==
    /\ builder.some
    /\ Len(builder.v.messages) < MaxInputs
    /\ IF path \in DOMAIN MdFiles
       THEN /\ builder' = Some(TemplateInternal(builder.v, role, LoadTemplate(path)))
            /\ pinned' = Some([pinned.v EXCEPT !.added =
                                  Append(@, [role |-> role, path |-> path, text |-> ""])])
            /\ ret' = [call |-> "from_md", ok |-> TRUE]
       ELSE /\ builder' = None
            /\ ret' = [call |-> "from_md", ok |-> FALSE,
                       err |-> [type |-> "PromptFileRead", path |-> path]]
            /\ UNCHANGED pinned

\* .render_inputs()
RenderInputsCall ==
    /\ builder.some
    /\ ret' = [call |-> "render_inputs", inputs |-> RenderInputs(builder.v)]
    /\ UNCHANGED <<builder, pinned>>

NextMessages ==
    /\ \/ \E k \in BuilderKeys, v \in BuilderValues : VarCall(k, v)
       \/ UserCall("hi")
       \/ \E role \in {"System", "Assistant"}, path \in MdPaths : FromMdCall(role, path)
       \/ RenderInputsCall
    /\ UNCHANGED <<ast, default_variables, required_variables, current_locale,
                   accumulated_variables, includes, locale_manager, files, locales>>
    /\ UNCHANGED <<parser_vars, conversation, messages>>

SpecMessages == InitMessages /\ [][NextMessages]_vars


(***************************************************************************)
(* Properties                                                              *)
(***************************************************************************)
RenderCalls == {"render", "render_with_base_path", "render_with_vars",
                "render_with_additional_vars"}
\* The last call was a render
IsRender == ret.call \in RenderCalls
\* The last call was a render that ran the executor
Rendered == IsRender /\ ret.rendered
\* The merged variable context of the last render
Seen == AllVars(default_variables, ret.vars)

IsReference(n) == n.node \in {"Variable", "NestedVariable"}
PathOf(n) == IF n.node = "Variable" THEN <<n.name>> ELSE n.parts
\* The reference as the template text has it
AsWritten(n) ==
    IF n.node = "Variable" THEN n.name
    ELSE CASE n.parts = <<"user", "name">> -> "user.name"
           [] n.parts = <<"user", "name", "id">> -> "user.name.id"
\* Only text and references at the top level
Flat(nodes) ==
    \A i \in 1..Len(nodes) : nodes[i].node \in {"Text", "Variable", "NestedVariable"}
\* Name absent, a path segment missing, or an intermediate value not an object
Unresolvable(path, ctx) ==
    \/ path[1] \notin DOMAIN ctx
    \/ /\ Len(path) >= 2
       /\ \/ ctx[path[1]].t # "obj"
          \/ path[2] \notin DOMAIN ctx[path[1]].o
    \/ /\ Len(path) >= 3
       /\ LET mid == ctx[path[1]].o[path[2]] IN
          \/ mid.t # "obj"
          \/ path[3] \notin DOMAIN mid.o
Least(S) == CHOOSE i \in S : \A j \in S : i <= j

MissingSupplied ==
    {required_variables[i] : i \in 1..Len(required_variables)} \ DOMAIN ret.vars.o

RejectedAsMissing ==
    ~ret.result.ok /\ ret.result.err.type = "RequiredVariablesMissing"

\* C3 as stated: render of a JSON object of variables is rejected with
\* RequiredVariablesMissing exactly when a required name is absent from the
\* merged set (defaults merged with supplied).
C3_CheckedAgainstMerged ==
    (IsRender /\ ret.vars.t = "obj") =>
        (RejectedAsMissing <=>
            \E i \in 1..Len(required_variables) : required_variables[i] \notin DOMAIN Seen)

\* C3 amended: the check is made against the supplied object alone, before the
\* defaults are merged: render is rejected with RequiredVariablesMissing exactly
\* when a required name is absent from the supplied object, default or not; so
\* rendering never starts with a required name absent from the merged set.
C3_CheckedAgainstSupplied ==
    IsRender =>
        /\ RejectedAsMissing <=> (ret.vars.t = "obj" /\ MissingSupplied # {})
        /\ ret.rendered =>
              \A i \in 1..Len(required_variables) : required_variables[i] \in DOMAIN Seen

C3_Witness ==
    /\ ret.call = "render_with_vars"
    /\ ast = Staff.ast
    /\ DOMAIN ret.vars.o = {"name", "domain"}
    /\ "role" \in DOMAIN default_variables
    /\ ~ret.result.ok
    /\ ret.result.err = [type |-> "RequiredVariablesMissing", variables |-> <<"role">>]

\* The binding of name k the precedence order gives the last render, as
\* [some, v]: additional over accumulated over default, supplied over default
C4_Binding(k) ==
    LET default == IF k \in DOMAIN default_variables
                   THEN Some(default_variables[k]) ELSE None
        stored == IF k \in DOMAIN accumulated_variables
                  THEN Some(accumulated_variables[k]) ELSE default
    IN  CASE ret.call \in {"render", "render_with_base_path"} ->
                IF ret.vars.t = "obj" /\ k \in DOMAIN ret.vars.o
                THEN Some(ret.vars.o[k]) ELSE default
          [] ret.call = "render_with_vars" -> stored
          [] ret.call = "render_with_additional_vars" ->
                IF ret.additional.t = "obj" /\ k \in DOMAIN ret.additional.o
                THEN Some(ret.additional.o[k]) ELSE stored

RECURSIVE C4_Text(_, _)
C4_Text(nodes, i) ==
    IF i > Len(nodes) THEN ""
    ELSE (IF nodes[i].node = "Text" THEN nodes[i].text
          ELSE ValueToString(C4_Binding(nodes[i].name).v)) \o C4_Text(nodes, i + 1)

PlainVariables(nodes) ==
    \A i \in 1..Len(nodes) : nodes[i].node \in {"Text", "Variable"}

\* C4: a default is used only for a name not supplied, a supplied value
\* overrides the default, the last .var on a key wins, and additional variables
\* override the accumulated ones.
C4_Precedence ==
    /\ ret.call = "var" => accumulated_variables[ret.key] = ret.value
    /\ (Rendered /\ PlainVariables(ast)) =>
          IF \A i \in 1..Len(ast) :
                 ast[i].node = "Variable" => C4_Binding(ast[i].name).some
          THEN ret.result = [ok |-> TRUE, out |-> C4_Text(ast, 1)]
          ELSE ~ret.result.ok

C4_Witness ==
    /\ ret.call = "render_with_additional_vars"
    /\ ast = Greet.ast
    /\ accumulated_variables = [k \in {"name", "role"} |->
                                   IF k = "name" THEN Str("Alice") ELSE Str("")]
    /\ ret.additional = Obj([k \in {"role"} |-> Num(1)])
    /\ ret.result = [ok |-> TRUE, out |-> "Hello Alice, I am your 1."]

\* Boolean true, non-empty string, nonzero number, non-empty array or object
C5_Truthy(ctx, name) ==
    /\ name \in DOMAIN ctx
    /\ LET v == ctx[name] IN
       \/ v = Bool(TRUE)
       \/ v.t = "str" /\ v.s # ""
       \/ v.t = "num" /\ v.n # 0
       \/ v.t = "arr" /\ v.a # << >>
       \/ v.t = "obj" /\ v.o # EmptyMap

\* C5: an If renders its then-branch exactly when the condition name is bound
\* to a truthy value; otherwise its else-branch, or nothing when it has none;
\* an unbound condition name is no error.
C5_IfByTruthiness ==
    (Rendered /\ ast = Debug.ast) =>
        LET t == C5_Truthy(Seen, "debug") IN
        ret.result = [ok |-> TRUE,
                      out |-> "a" \o (IF t THEN "X" ELSE "") \o "b"
                              \o (IF t THEN "T" ELSE "E")]

C5_Witness ==
    /\ Rendered
    /\ ast = Debug.ast
    /\ ret.vars = Obj([k \in {"debug"} |-> Num(0)])
    /\ ret.result = [ok |-> TRUE, out |-> "abE"]

RECURSIVE C6_PerElement(_, _)
C6_PerElement(a, i) ==
    IF i > Len(a) THEN ""
    ELSE "<" \o ValueToString(a[i]) \o ">" \o C6_PerElement(a, i + 1)

\* C6: an Each over an array renders its body once per element, in array
\* order, with `this` bound to the element, and concatenates; over an unbound
\* or non-array source it renders nothing, without error.
C6_EachOverArray ==
    (Rendered /\ ast = Items.ast) =>
        ret.result = [ok |-> TRUE,
                      out |-> "["
                              \o (IF "items" \in DOMAIN Seen /\ Seen["items"].t = "arr"
                                  THEN C6_PerElement(Seen["items"].a, 1) ELSE "")
                              \o "]"]

C6_Witness ==
    /\ Rendered
    /\ ast = Items.ast
    /\ ret.vars = Obj([k \in {"items"} |-> Arr(<<Str("a"), Str("b")>>)])
    /\ ret.result = [ok |-> TRUE, out |-> "[<a><b>]"]

\* C7: a Switch renders the body of the first case whose literal equals the
\* stringified switch value, and only it; no match or an unbound switch
\* variable renders nothing, without error.
C7_SwitchFirstMatch ==
    (Rendered /\ ast = Kind.ast) =>
        ret.result =
            [ok |-> TRUE,
             out |-> IF "kind" \notin DOMAIN Seen THEN "."
                     ELSE CASE Seen["kind"] = Str("a") -> "A1."
                            [] Seen["kind"] = Num(1) -> "ONE."
                            [] Seen["kind"] = Bool(TRUE) -> "YES."
                            [] Seen["kind"] = Arr(<< >>) -> "NIL."
                            [] OTHER -> "."]

C7_Witness ==
    /\ Rendered
    /\ ast = Kind.ast
    /\ ret.vars = Obj([k \in {"kind"} |-> Str("a")])
    /\ ret.result = [ok |-> TRUE, out |-> "A1."]

\* C8: an IfLocale takes its then-branch exactly when the active locale equals
\* its literal, with no fallback from "es-MX" to "es", whatever the variables.
C8_IfLocaleExact ==
    (Rendered /\ ast = Localized.ast) =>
        ret.result =
            [ok |-> TRUE,
             out |-> CASE current_locale = "es" -> "ES|"
                       [] current_locale = "en" -> "OTHER|EN"
                       [] OTHER -> "OTHER|"]

C8_Witness ==
    /\ Rendered
    /\ ast = Localized.ast
    /\ current_locale = "es-MX"
    /\ ret.vars = Obj([k \in {"es"} |-> Bool(TRUE)])
    /\ ret.result = [ok |-> TRUE, out |-> "OTHER|"]

IncludePathsOf(nodes) ==
    {nodes[i].path : i \in {j \in 1..Len(nodes) : nodes[j].node = "Include"}}
\* The distinct paths the template and its include files name
IncludePaths ==
    IncludePathsOf(ast) \cup
    UNION {IncludePathsOf(files[p].parsed.ast) :
               p \in {q \in DOMAIN files : files[q].parsed.ok}}

TextOrInclude(nodes) ==
    \A i \in 1..Len(nodes) : nodes[i].node \in {"Text", "Include"}
\* The template and its include files hold nothing but text and includes
OnlyTextAndIncludes ==
    /\ TextOrInclude(ast)
    /\ \A p \in DOMAIN files :
          files[p].readable => files[p].parsed.ok /\ TextOrInclude(files[p].parsed.ast)

\* C9: with include files that include themselves, directly or through a
\* chain, render terminates: the include nesting never exceeds the number of
\* distinct include paths, an include of a path in flight yields the circular
\* marker, and the render returns Ok.
C9_IncludeCyclesTerminate ==
    Rendered =>
        /\ ret.result.ok \/ ret.result.err.type # "Diverged"
        /\ ret.executor.depth_seen <= Cardinality(IncludePaths)
        /\ OnlyTextAndIncludes => ret.result.ok
        /\ ast = Cyclic.ast =>
              ret.result =
                  [ok |-> TRUE,
                   out |-> "[A(<!-- Circular reference detected: a.md -->)]"
                           \o "B(C(<!-- Circular reference detected: b.md -->"
                           \o "A(<!-- Circular reference detected: a.md -->)))"]

C9_Witness ==
    /\ Rendered
    /\ ast = Cyclic.ast
    /\ ret.result.ok
    /\ ret.executor.depth_seen = 3

\* C10: an Include of a file that does not exist contributes the marker
\* `<!-- Include not found: <path> -->`; the nodes before and after it render
\* as usual and render returns Ok.
C10_MissingIncludeMarker ==
    (Rendered /\ ast = Partial.ast) =>
        ret.result =
            [ok |-> TRUE,
             out |-> "pre <!-- Include not found: missing.md --> mid L:"
                     \o (IF "name" \in DOMAIN Seen
                         THEN ValueToString(Seen["name"]) ELSE "name")
                     \o "<!-- Include not found: gone.md -->"
                     \o " <!-- Error reading include: dir.md --> post"]

C10_Witness ==
    /\ Rendered
    /\ ast = Partial.ast
    /\ ret.vars = Obj([k \in {"name"} |-> Str("Alice")])
    /\ ret.result.ok
    /\ ret.result.out = "pre <!-- Include not found: missing.md --> mid L:Alice"
                        \o "<!-- Include not found: gone.md -->"
                        \o " <!-- Error reading include: dir.md --> post"

\* The language prefix of a locale identifier
C11_Language(l) == IF l = "es-MX" THEN "es" ELSE IF l = "en-US" THEN "en" ELSE l
\* The locale directory whose data serves the active locale, "" when there is none
C11_DirUsed ==
    IF ~locales.some THEN ""
    ELSE IF current_locale \in DOMAIN locales.v THEN current_locale
    ELSE IF C11_Language(current_locale) \in DOMAIN locales.v
         THEN C11_Language(current_locale)
    ELSE IF "en" \in DOMAIN locales.v THEN "en" ELSE ""
\* The key as the template text has it
C11_KeyText(key) ==
    CASE key = <<"greeting">> -> "greeting"
      [] key = <<"farewell">> -> "farewell"
      [] key = <<"system", "title">> -> "system.title"
\* The locale data in use holds no text under the key
C11_Absent(key) ==
    LET strings == locales.v[C11_DirUsed].strings IN
    \/ key[1] \notin DOMAIN strings
    \/ Len(key) = 1 /\ strings[key[1]].y # "str"
    \/ /\ Len(key) = 2
       /\ \/ strings[key[1]].y # "map"
          \/ key[2] \notin DOMAIN strings[key[1]].m
          \/ strings[key[1]].m[key[2]].y # "str"
\* Only text and I18n nodes at the top level, at least one I18n
C11_TextAndI18n(nodes) ==
    /\ \A i \in 1..Len(nodes) : nodes[i].node \in {"Text", "I18n"}
    /\ \E i \in 1..Len(nodes) : nodes[i].node = "I18n"
\* The I18n nodes (by position) that find no translation
C11_Failing ==
    {i \in 1..Len(ast) : /\ ast[i].node = "I18n"
                         /\ \/ ~locale_manager.some
                            \/ C11_DirUsed # "" /\ C11_Absent(ast[i].key)}

C13_Loads == {"load_locale", "get_locale"}
\* The cache of the manager
C13_Cache == locale_manager.v.cache

\* C12: resolve_locale(requested) returns the first identifier among the
\* requested locale, its language prefix and the default locale whose own
\* directory exists, and LocaleNotFound when none of the three exists; es-MX
\* with only es and en on disk resolves to es.
C12_FirstOwnDirectory ==
    ret.call = "resolve_locale" =>
        LET chain == <<ret.locale, C11_Language(ret.locale),
                       locale_manager.v.default_locale>>
            own == {i \in 1..3 : chain[i] \in DOMAIN locales.v}
        IN  ret.result = IF own # {} THEN [ok |-> TRUE, locale |-> chain[Least(own)]]
                         ELSE [ok |-> FALSE, err |-> LocaleNotFound(ret.locale)]

\* C13: once a load_locale / get_locale for a locale has succeeded every later
\* call for it returns the data of that first call, whatever happened to the
\* files since; the cache never loses or replaces an entry; a failing call
\* leaves the cache as it was.
C13_CacheStable ==
    [][/\ \A l \in DOMAIN C13_Cache :
              l \in DOMAIN C13_Cache' /\ C13_Cache'[l] = C13_Cache[l]
       /\ (ret'.call \in C13_Loads /\ ret'.locale \in DOMAIN C13_Cache) =>
              ret'.result = [ok |-> TRUE, data |-> C13_Cache[ret'.locale]]
       /\ (ret'.call \in C13_Loads /\ ~ret'.result.ok) => C13_Cache' = C13_Cache
       /\ (ret'.call \in C13_Loads /\ ret'.result.ok) =>
              C13_Cache'[ret'.locale] = ret'.result.data]_vars

\* A cached locale is served although its directory is gone and the fallback
\* directory holds other strings
C13_Witness ==
    /\ ret.call = "get_locale"
    /\ ret.locale = "es"
    /\ ret.result.ok
    /\ ret.result.data.strings = EsStrings
    /\ DOMAIN locales.v = {"en"}
    /\ locales.v["en"] = LocaleDir(EnStrings)
    /\ DOMAIN C13_Cache = {"es", "es-MX"}

\* What a parameter stands for: the text between the quotes of a quoted
\* literal, the value of the variable a bare token names (its text when no
\* variable has that name)
C14_Value(p, ctx) ==
    IF p.quoted THEN Str(p.parts[1])
    ELSE IF p.parts[1] \in DOMAIN ctx THEN ctx[p.parts[1]] ELSE Str(p.parts[1])
C14_Bindings(params, ctx) == [k \in DOMAIN params |-> C14_Value(params[k], ctx)]
\* Text, Include and I18n nodes only, with a quoted parameter somewhere
C14_HasQuoted(nodes) ==
    /\ \A i \in 1..Len(nodes) : nodes[i].node \in {"Text", "Include", "I18n"}
    /\ \E i \in 1..Len(nodes) :
          /\ nodes[i].node \in {"Include", "I18n"}
          /\ \E k \in DOMAIN nodes[i].params : nodes[i].params[k].quoted
\* The text of the nodes from the i-th on, parameters standing for C14_Value
RECURSIVE C14_Text(_, _, _)
C14_Text(nodes, i, ctx) ==
    IF i > Len(nodes) THEN ""
    ELSE LET n == nodes[i]
             text ==
                CASE n.node = "Text" -> n.text
                  [] n.node = "Include" ->
                        Render(files[n.path].parsed.ast,
                               MergeOver(ctx, C14_Bindings(n.params, ctx)),
                               TemplateExecutor(current_locale)).out
                  [] n.node = "I18n" ->
                        Interpolate(locales.v[C11_DirUsed].strings[n.key[1]].pieces,
                                    C14_Bindings(n.params, ctx), 1)
         IN  text \o C14_Text(nodes, i + 1, ctx)

\* C14: in the parameters of an Include and of an I18n a quoted literal always
\* stands for the string between its quotes, never for a variable of that
\* name; only a bare token is looked up as a variable.
C14_QuotedIsLiteral ==
    (Rendered /\ C14_HasQuoted(ast) /\ ret.result.ok) =>
        ret.result.out = C14_Text(ast, 1, Seen)

\* The text has been parsed
C15_ParsedSource == parse_result.some
\* Some `{{` of the text has no `}}` after it
C15_Unterminated ==
    \E i \in 1..Len(source) :
        /\ source[i] = OpenTok
        /\ \A j \in (i + 1)..Len(source) : source[j] # CloseTok

\* C15: a text in which some `{{` has no `}}` after it fails to parse with a
\* template parsing error, at top level and inside any block body alike, and
\* no node list is returned; an unknown keyword between braces is no error
\* but a Variable node.
C15_UnterminatedFails ==
    /\ (C15_ParsedSource /\ C15_Unterminated) =>
          /\ ~parse_result.v.ok
          /\ "ast" \notin DOMAIN parse_result.v
          /\ parse_result.v.err.type = "TemplateParsing"
    /\ (C15_ParsedSource /\ source = Tag(Word("#unless", "x"))) =>
          parse_result.v = [ok |-> TRUE, ast |-> <<Variable("#unless x")>>]

\* The closer of each block opener
C16_Closer(kw) ==
    CASE kw = "#if" -> "/if"
      [] kw = "#each" -> "/each"
      [] kw = "#switch" -> "/switch"
      [] kw = "#case" -> "/case"
      [] kw = "#if_locale" -> "/if_locale"
\* The text is made of whole tags and plain text only
C16_WholeTags ==
    \A i \in 1..Len(source) :
        /\ source[i] = OpenTok =>
              i + 2 <= Len(source) /\ source[i + 1].k = "word" /\ source[i + 2] = CloseTok
        /\ source[i] = CloseTok => i > 2 /\ source[i - 2] = OpenTok
\* A block opener of the text (a `{{#case}}` opens a block inside a switch) with
\* no closer of its kind anywhere after it
C16_Unclosed ==
    \E i \in 2..Len(source) :
        /\ source[i].k = "word"
        /\ \/ source[i].kw \in {"#if", "#each", "#switch", "#if_locale"}
           \/ /\ source[i].kw = "#case"
              /\ \E h \in 1..(i - 1) : source[h].k = "word" /\ source[h].kw = "#switch"
        /\ \A j \in (i + 1)..Len(source) : source[j] # Word(C16_Closer(source[i].kw), "")

\* C16: a block opener with no matching closer before the end of the text makes
\* parse fail with a parse error; no AST is returned.
C16_UnclosedBlockFails ==
    (C15_ParsedSource /\ C16_WholeTags /\ C16_Unclosed) =>
        ~parse_result.v.ok /\ parse_result.v.err.type = "TemplateParsing"

C18_Role(l) ==
    IF l.kind # "head" THEN ""
    ELSE CASE l.word \in {"System", "SYSTEM", "system"} -> "System"
           [] l.word \in {"User", "USER", "user"} -> "User"
           [] l.word \in {"Assistant", "ASSISTANT", "assistant"} -> "Assistant"
           [] l.word \in {"Developer", "DEVELOPER", "developer"} -> "Developer"
           [] OTHER -> ""
\* The role headers of the text, by line number
C18_Heads == {i \in 1..Len(conversation) : C18_Role(conversation[i]) # ""}
\* The first role header after line i, or the line after the last
C18_NextHead(i) ==
    LET later == {h \in C18_Heads : h > i} IN
    IF later = {} THEN Len(conversation) + 1 ELSE Least(later)
\* The messages of the role-headed sections from line i on
RECURSIVE C18_Sections(_)
C18_Sections(i) ==
    IF i > Len(conversation) THEN << >>
    ELSE IF i \notin C18_Heads THEN C18_Sections(i + 1)
    ELSE LET stop == C18_NextHead(i)
             text == TrimJoin(SubSeq(conversation, i + 1, stop - 1))
         IN  (IF text # "" THEN <<[role |-> C18_Role(conversation[i]), content |-> text]>>
              ELSE << >>) \o C18_Sections(stop)
\* The lines before the first role header
C18_Leading == SubSeq(conversation, 1, C18_NextHead(0) - 1)

\* C18: the rendered text is split at its level-2 role headers: each header
\* starts a message of its role whose content is the trimmed text up to the
\* next role header, in the order of the headers; a section with no text
\* gives no message.
C18_SplitAtRoleHeaders ==
    (messages.some /\ TrimJoin(C18_Leading) = "") =>
        messages.v.list = C18_Sections(1)

\* C19: non-blank text before the first role header becomes one System
\* message holding just that text, and the role-headed sections after it still
\* give their messages; a text with no role header at all becomes exactly one
\* System message.
C19_LeadingIsSystem ==
    (messages.some /\ TrimJoin(C18_Leading) # "") =>
        /\ Len(messages.v.list) = 1 + Len(C18_Sections(1))
        /\ messages.v.list[1].role = "System"
        /\ messages.v.list[1].content
              \in {TrimJoin(C18_Leading), JoinLines(C18_Leading, 1, Len(C18_Leading))}
        /\ SubSeq(messages.v.list, 2, Len(messages.v.list)) = C18_Sections(1)

\* The frontmatter includes that are not under the base path, by position
C20_Missing == {i \in 1..Len(includes) : includes[i] \notin DOMAIN files}

\* The error validate_includes reports for the declared path `path`
C20_NotFound(path) ==
    [type |-> "TemplateParsing",
     msg |-> "Include file not found: " \o path \o " (resolved to templates/"
             \o path \o ")"]

\* The last call was a render that was given a base path
C20_Based == IsRender /\ ret.call = "render_with_base_path"

\* The required variables of the template are all in the variables of the call
C20_Supplied ==
    \A i \in 1..Len(required_variables) :
        ret.vars # Null /\ required_variables[i] \in DOMAIN ret.vars.o

\* A render without a base path never looks at the declared list: it runs the
\* executor whenever the required variables are there, and never reports a
\* declared include as not found
C20_Unchecked ==
    (IsRender /\ ~C20_Based) =>
        /\ C20_Supplied => ret.rendered
        /\ \A i \in 1..Len(includes) :
              ~ret.result.ok => ret.result.err # C20_NotFound(includes[i])

\* C20 as stated: with a base path, a declared include that does not exist makes
\* render fail with the 'Include file not found' parse error before any node is
\* rendered; without a base path the declared list is not checked.
C20_DeclaredIncludesChecked ==
    /\ (C20_Based /\ C20_Missing # {}) =>
          /\ ~ret.rendered
          /\ ~ret.result.ok
          /\ \E i \in C20_Missing : ret.result.err = C20_NotFound(includes[i])
    /\ C20_Unchecked

\* C20, amended: the required variables are validated first, so the 'Include
\* file not found' error (naming the first missing declared path) is returned
\* only when every required variable was supplied; when one is missing render
\* fails with the error of the variable check instead (RequiredVariablesMissing,
\* or the parse error for variables that are not an object). Either way no node
\* is rendered.
\* When every declared path exists, an inline include of a missing file still
\* renders as its marker. Without a base path the declared list is not checked.
C20_DeclaredIncludesCheckedAfterVariables ==
    /\ (C20_Based /\ C20_Missing # {}) =>
          /\ ~ret.rendered
          /\ ~ret.result.ok
          /\ IF C20_Supplied
             THEN ret.result.err =
                    C20_NotFound(includes[CHOOSE i \in C20_Missing :
                                            \A j \in C20_Missing : i <= j])
             ELSE \/ ret.result.err.type = "RequiredVariablesMissing"
                  \/ /\ ret.vars = Null
                     /\ ret.result.err =
                          [type |-> "TemplateParsing",
                           msg |-> "Variables must be provided as a JSON object"]
    /\ (C20_Based /\ C20_Missing = {} /\ C20_Supplied) => ret.rendered
    /\ (C20_Based /\ ast = Declared.ast /\ C20_Supplied) =>
          ret.result = [ok |-> TRUE,
                        out |-> "d L:"
                                \o (IF ret.vars.o["name"] = Str("Alice")
                                    THEN "Alice" ELSE "1")
                                \o " <!-- Include not found: missing.md -->"]
    /\ C20_Unchecked

\* A render with a base path stopped at the first declared include that is not
\* there, although the required variable was supplied
C20_Witness ==
    /\ ast = Undeclared.ast
    /\ C20_Based
    /\ C20_Supplied
    /\ ~ret.rendered
    /\ ret.result = [ok |-> FALSE, err |-> C20_NotFound("absent.md")]

\* The language of a locale identifier of DirectionIds
C21_Language(locale) == IF locale = "ar-EG" THEN "ar" ELSE locale

\* C21: the text direction of loaded locale data is the declared
\* `text_direction` when one is declared (rtl gives RightToLeft, ltr gives
\* LeftToRight, for any language); only when none is declared is it taken
\* from the language table (RightToLeft for ar, he, fa, ur).
C21_DeclaredDirectionWins ==
    (ret.call = "load_locale" /\ ret.result.ok) =>
        LET data == ret.result.data IN
        IF "text_direction" \in DOMAIN data.strings
        THEN /\ data.strings["text_direction"] = YamlStr(<<Lit("rtl")>>)
                  => data.text_direction = "RightToLeft"
             /\ data.strings["text_direction"] = YamlStr(<<Lit("ltr")>>)
                  => data.text_direction = "LeftToRight"
        ELSE data.text_direction =
                IF C21_Language(data.locale) \in {"ar", "he", "fa", "ur"}
                THEN "RightToLeft" ELSE "LeftToRight"

\* The text the template file at `path` renders to with the variables
\* `variables`, written out from the two template files; the failure text when
\* it cannot render
C22_Text(path, variables) ==
    LET name == IF "name" \in DOMAIN variables THEN variables["name"].s ELSE ""
        role == IF "role" \in DOMAIN variables THEN variables["role"].s ELSE ""
    IN  IF path = "hello.md"
        THEN IF {"name", "role"} \subseteq DOMAIN variables
             THEN "Hello " \o name \o ", you are a " \o role \o "."
             ELSE "<!-- Template rendering failed -->"
        ELSE IF "name" \in DOMAIN variables
             THEN "Hello " \o name \o ", I am your "
                  \o (IF "role" \in DOMAIN variables THEN role ELSE "assistant") \o "."
             ELSE "<!-- Template rendering failed -->"

\* C22: render_inputs renders every stored template with all the variables the
\* builder has accumulated by then, whether a variable was set before or after
\* the template was added; the rendered list has the length, order and roles
\* of the stored inputs, and plain messages are returned as they are.
C22_RenderedLazily ==
    (ret.call = "render_inputs") =>
        /\ Len(ret.inputs) = Len(builder.v.messages)
        /\ Len(ret.inputs) = Len(pinned.v.added)
        /\ \A i \in 1..Len(ret.inputs) :
              LET call == pinned.v.added[i] IN
              /\ ret.inputs[i].input = "Message"
              /\ ret.inputs[i].role = builder.v.messages[i].role
              /\ ret.inputs[i].role = call.role
              /\ ret.inputs[i].content =
                    IF call.path = "" THEN call.text
                    ELSE C22_Text(call.path, builder.v.accumulated_variables)

\* A template was stored between two .var calls, and both variables are in the
\* rendered message
C22_Witness ==
    /\ ret.call = "render_inputs"
    /\ pinned.v.early /\ pinned.v.late
    /\ Len(ret.inputs) = 2
    /\ pinned.v.added[1].path = "hello.md"
    /\ ret.inputs[1] = InputMessage("System", "Hello Alice, you are a Bob.")
    /\ ret.inputs[2] = InputMessage("User", "hi")

\* C23: in a text of properly nested blocks every block ends at its own closer,
\* whatever is nested in it: the inner closer ends the inner block, an else
\* goes to the innermost open if or if_locale, and what follows the inner closer
\* stays in the outer body; so the parser returns the nodes as they were nested.
C23_NestedBlocksClose ==
    (parse_result.some /\ pinned.v.depth >= 2) =>
        parse_result.v = [ok |-> TRUE, ast |-> pinned.v.ast]

\* C24: a switch block collects exactly the cases between its opener and its
\* own `{{/switch}}`, also when a blank separates the last `{{/case}}` from the
\* closer; what follows the closer, the cases of a later switch included, is
\* parsed as the nodes after the Switch node.
C24_SwitchKeepsOwnCases ==
    (parse_result.some /\ pinned.v.switches >= 1) =>
        parse_result.v = [ok |-> TRUE, ast |-> pinned.v.ast]

\* What a template of text and includes renders to when an include yields the
\* circular marker exactly if its path is among `chain`, the paths of the
\* includes it lies in
RECURSIVE C25_Text(_, _, _)
C25_Text(nodes, i, chain) ==
    IF i > Len(nodes) THEN ""
    ELSE (IF nodes[i].node = "Text" THEN nodes[i].text
          ELSE LET path == nodes[i].path IN
               IF path \in chain
               THEN "<!-- Circular reference detected: " \o path \o " -->"
               ELSE IF path \notin DOMAIN files
               THEN "<!-- Include not found: " \o path \o " -->"
               ELSE IF ~files[path].readable
               THEN "<!-- Error reading include: " \o path \o " -->"
               ELSE C25_Text(files[path].parsed.ast, 1, chain \cup {path}))
         \o C25_Text(nodes, i + 1, chain)

\* C25: the circular marker is produced only for an include whose path is in
\* flight (an include it lies in has that path); a file included several times
\* one after another, at top level or inside another include, is rendered in
\* full each time.
C25_MarkerOnlyInFlight ==
    (Rendered /\ OnlyTextAndIncludes) =>
        /\ ret.result = [ok |-> TRUE, out |-> C25_Text(ast, 1, {})]
        /\ ast = Twice.ast =>
              ret.result.out =
                  "L|L|P(LL<!-- Circular reference detected: pair.md -->)|L"

\* leaf.md was rendered in full five times in one render
C25_Witness ==
    /\ Rendered
    /\ ast = Twice.ast
    /\ ret.result = [ok |-> TRUE,
                     out |-> "L|L|P(LL<!-- Circular reference detected: pair.md -->)|L"]

\* C26: whenever the executor's render returns at top level, with Ok or with an
\* error raised inside an included file, its include stack is empty again.
C26_StackBalanced ==
    Rendered => ret.executor.include_stack = << >>

\* What the tags of one team give when `this.lead` is the lead of the tag itself
RECURSIVE C27_Tags(_, _)
C27_Tags(tags, i) ==
    IF i > Len(tags) THEN ""
    ELSE (IF /\ tags[i].t = "obj"
             /\ "lead" \in DOMAIN tags[i].o
             /\ tags[i].o["lead"] \notin {Str(""), Null}
          THEN "!" ELSE "-")
         \o C27_Tags(tags, i + 1)

\* What the teams give, one after another
RECURSIVE C27_Teams(_, _)
C27_Teams(teams, i) ==
    IF i > Len(teams) THEN ""
    ELSE "("
         \o (IF /\ teams[i].t = "obj"
                 /\ "tags" \in DOMAIN teams[i].o
                 /\ teams[i].o["tags"].t = "arr"
              THEN C27_Tags(teams[i].o["tags"].a, 1) ELSE "")
         \o ")" \o C27_Teams(teams, i + 1)

\* C27: inside the body of an Each, `this` and every `this.<property>` are those
\* of the current element: an inner Each over elements that are no objects, or
\* lack the property, sees no `this.<property>` of the enclosing element; and
\* behind the Each no `this` binding is left.
C27_ThisIsCurrentElement ==
    (Rendered /\ ast = Teams.ast) =>
        ret.result =
            [ok |-> TRUE,
             out |-> IF "teams" \in DOMAIN Seen /\ Seen["teams"].t = "arr"
                     THEN C27_Teams(Seen["teams"].a, 1) ELSE ""]

\* The branches of Guarded that cannot render are all untaken: `on` is truthy
\* and not the text of the first case, `list` is absent, empty or no array, and
\* the locale is not the one the IfLocale names
C28_Untaken ==
    /\ Rendered
    /\ ast = Guarded.ast
    /\ IsConditionTrue("on", Seen)
    /\ ValueToString(Seen["on"]) # "zzz"
    /\ ~(Has(Seen, "list") /\ Seen["list"].t = "arr" /\ Len(Seen["list"].a) > 0)
    /\ ret.executor.current_locale # "es"

\* C28: a missing variable, a missing i18n key or an include in the untaken
\* branch of an If or IfLocale, in a non-matching Switch case, or in the body of
\* an Each over an empty, absent or non-array source gives no error and no
\* output: the render is Ok with the text of the taken branches only.
C28_OnlyTakenBranchEvaluated ==
    C28_Untaken =>
        ret.result = [ok |-> TRUE,
                      out |-> "Y" \o (IF ValueToString(Seen["on"]) = "true" THEN "T" ELSE "")
                                 \o "E"]

\* Guarded rendered with `on` true and `list` empty
C28_Witness ==
    /\ C28_Untaken
    /\ Seen["on"] = Bool(TRUE)
    /\ Has(Seen, "list") /\ Seen["list"] = Arr(<< >>)
    /\ ret.result = [ok |-> TRUE, out |-> "YTE"]

\* The translation with every placeholder that has a parameter given way to
\* the parameter's text, the texts put in left as they are
RECURSIVE C29_OnePass(_, _, _)
C29_OnePass(template, variables, i) ==
    IF i > Len(template) THEN ""
    ELSE (IF ~template[i].lit /\ Has(variables, template[i].s)
          THEN RawText(ValuePieces(variables[template[i].s]), 1)
          ELSE RawText(<<template[i]>>, 1))
         \o C29_OnePass(template, variables, i + 1)

\* C29: interpolate gives the same string whatever the order the parameters are
\* substituted in, also when the value of one parameter holds the placeholder
\* of another, and the values put in are not searched for placeholders: the
\* result is the translation with each of its own placeholders replaced once.
C29_OrderIndependent ==
    (ret.call = "interpolate" /\ ret.result.ok) =>
        /\ ret.result = pinned.v.first.v
        /\ ret.result.out = C29_OnePass(pinned.v.data.strings["greeting"].pieces,
                                        pinned.v.variables, 1)

\* The text a parameter written as the bare name `written` has inside the
\* include: the parent's variable of that name, or the name itself
C30_Param(written) ==
    IF Has(Seen, written) THEN ValueToString(Seen[written]) ELSE written

\* C30: inside the include the context is the parent's bindings plus the
\* parameters, each parameter resolved against the parent's bindings (not
\* against the other parameters) and shadowing the parent's variable of its
\* name; behind the include the parent's bindings are what they were, with
\* no parameter and no shadowed value left.
C30_ParamsScopedToInclude ==
    (Rendered /\ ast = Scoped.ast) =>
        ret.result =
            IF ~Has(Seen, "name")
            THEN [ok |-> FALSE, err |-> TemplateVariableNotFound("name")]
            ELSE IF ~Has(Seen, "title")
            THEN [ok |-> FALSE, err |-> TemplateVariableNotFound("title")]
            ELSE [ok |-> TRUE,
                  out |-> C30_Param("title") \o "/" \o C30_Param("name") \o "/lit|"
                          \o ValueToString(Seen["name"]) \o "|"
                          \o ValueToString(Seen["title"])]

\* Scoped rendered with name N and title T: the include has them swapped, the
\* parent has them as they were
C30_Witness ==
    /\ Rendered
    /\ ast = Scoped.ast
    /\ ret.result = [ok |-> TRUE, out |-> "T/N/lit|N|T"]

====
